---- MODULE Spec2Model ----
(***************************************************************************)
(* Model of the PDF-to-slides converter: the per-slide pipeline runner of  *)
(* PDFToSlidesOrchestrator (process_slides_in_parallel and                 *)
(* process_single_slide), the ContextManager result store, the top-level   *)
(* convert_pdf_to_slides_async flow with main, _extract_json_from_response, *)
(* the loaders, chunking strategies, presentation chunks and font analysis *)
(* of PDFExtractionSkill, the files written for a presentation, and        *)
(* ImageProcessingSkill.process_images_in_parallel.                        *)
(***************************************************************************)
EXTENDS Integers, Sequences, FiniteSets, TLC

\* ------------------------------------------------------------------------
\* Bounds of the model
\* ------------------------------------------------------------------------
\* Longest slide_data_list handed to process_slides_in_parallel.
MaxItems == 2

\* Number of tasks that use the result store at once.
NumClients == 2

\* Most documents a loader returns for one PDF.
MaxDocs == 2

\* Most pieces (a character or a fence) of a text handed to
\* _extract_json_from_response.
MaxPieces == 5

\* Most paragraphs (runs between blank lines) of a document that is chunked.
MaxParagraphs == 3

\* Longest text (in characters) handed to _apply_chunking_strategy.
MaxChars == 5

\* Most blocks (a piece of text repeated) of a chunk handed to
\* _create_presentation_chunks.
MaxBlocks == 2

\* Most pages of a document whose fonts are analysed.
MaxPages == 6

\* Most images handed to process_images_in_parallel.
MaxImages == 3

\* ------------------------------------------------------------------------
\* Values
\* ------------------------------------------------------------------------
\* A key that a slide dictionary does not carry (dict.get then yields the default).
Absent == "absent"

\* The JSON values of a flag: true, false, or no such key.
FlagValues == {"true", "false", Absent}

\* The slide dictionaries the content analysis may hand to the runner: every
\* flag occurs as true, as false and as a missing key.
Slides ==
    { [SlideNumber |-> 1, HasData |-> "true",  NeedsImage |-> "true"],
      [SlideNumber |-> 2, HasData |-> "true",  NeedsImage |-> Absent],
      [SlideNumber |-> 3, HasData |-> "false", NeedsImage |-> "true"],
      [SlideNumber |-> 4, HasData |-> Absent,  NeedsImage |-> "false"] }

\* As Get, with the default of a missing key taken as true.
GetDefaultTrue(slide_data, key) ==
    IF slide_data[key] = Absent THEN TRUE ELSE slide_data[key] = "true"

\* slide_data.get(key, False) followed by Python's truth test.
Get(slide_data, key) ==
    IF slide_data[key] = Absent THEN FALSE ELSE slide_data[key] = "true"

\* The five per-slide stages, in the order process_single_slide names them.
Stages == <<"theme", "viz", "img", "gen", "narr">>

Whitespace == {" ", "\n"}

RECURSIVE LStrip(_)
LStrip(s) ==
    IF s /= <<>> /\ Head(s) \in Whitespace THEN LStrip(Tail(s)) ELSE s

RECURSIVE RStrip(_)
RStrip(s) ==
    IF s /= <<>> /\ s[Len(s)] \in Whitespace
    THEN RStrip(SubSeq(s, 1, Len(s) - 1))
    ELSE s

\* str.strip()
Strip(s) == RStrip(LStrip(s))

\* ------------------------------------------------------------------------
\* Texts. A text is a sequence of one-character strings.
\* ------------------------------------------------------------------------
EmptyString == <<>>

\* The value of a local variable that has not been assigned yet.
Unset == <<"unset">>

FlagChar(v) == IF v = Absent THEN "A" ELSE IF v = "true" THEN "T" ELSE "F"

DigitChar(n) == <<"0", "1", "2", "3", "4", "5", "6", "7", "8", "9">>[n + 1]

\* json.dumps(slide_data): an injective rendering of the slide dictionary.
Dumps(slide_data) ==
    <<DigitChar(slide_data.SlideNumber), FlagChar(slide_data.HasData),
      FlagChar(slide_data.NeedsImage)>>

\* ------------------------------------------------------------------------
\* json.loads on the texts of the model: numbers, strings, the three
\* literals, arrays and objects, with JSON whitespace. The alphabet has no
\* backslash, so a string is a quote, characters other than a quote or a
\* line feed, and a quote.
\* ------------------------------------------------------------------------
Digits == {"1", "2"}

Quote == "\""

Literals ==
    { <<"t", "r", "u", "e">>, <<"f", "a", "l", "s", "e">>, <<"n", "u", "l", "l">> }

\* s has p at position i.
MatchAt(s, p, i) ==
    /\ i >= 1
    /\ i + Len(p) - 1 <= Len(s)
    /\ \A k \in 1..Len(p) : s[i + k - 1] = p[k]

RECURSIVE SkipWs(_, _)
SkipWs(s, i) ==
    IF i <= Len(s) /\ s[i] \in Whitespace THEN SkipWs(s, i + 1) ELSE i

RECURSIVE SkipDigits(_, _)
SkipDigits(s, i) ==
    IF i <= Len(s) /\ s[i] \in Digits THEN SkipDigits(s, i + 1) ELSE i

\* The index of the quote that closes the string whose content starts at i,
\* or 0 when the string is not closed (a raw line feed is not allowed in it).
RECURSIVE StringEnd(_, _)
StringEnd(s, i) ==
    IF i > Len(s) \/ s[i] = "\n" THEN 0
    ELSE IF s[i] = Quote THEN i
    ELSE StringEnd(s, i + 1)

\* ParseValue(s, i): the index after the JSON value that starts (after
\* whitespace) at i, or 0 when there is none.
RECURSIVE ParseValue(_, _)
RECURSIVE ParseElements(_, _)
RECURSIVE ParseMembers(_, _)
ParseValue(s, i) ==
    LET j == SkipWs(s, i) IN
    IF j > Len(s) THEN 0
    ELSE IF s[j] \in Digits THEN SkipDigits(s, j)
    ELSE IF s[j] = Quote THEN
        LET e == StringEnd(s, j + 1) IN IF e = 0 THEN 0 ELSE e + 1
    ELSE IF \E l \in Literals : MatchAt(s, l, j) THEN
        j + Len(CHOOSE l \in Literals : MatchAt(s, l, j))
    ELSE IF s[j] = "{" THEN
        LET k == SkipWs(s, j + 1) IN
        IF k <= Len(s) /\ s[k] = "}" THEN k + 1 ELSE ParseMembers(s, j + 1)
    ELSE IF s[j] = "[" THEN
        LET k == SkipWs(s, j + 1) IN
        IF k <= Len(s) /\ s[k] = "]" THEN k + 1 ELSE ParseElements(s, j + 1)
    ELSE 0

ParseElements(s, i) ==
    LET e == ParseValue(s, i) IN
    IF e = 0 THEN 0
    ELSE LET k == SkipWs(s, e) IN
         IF k > Len(s) THEN 0
         ELSE IF s[k] = "," THEN ParseElements(s, k + 1)
         ELSE IF s[k] = "]" THEN k + 1
         ELSE 0

\* The members of an object from position i: "key" : value , ... }
ParseMembers(s, i) ==
    LET j == SkipWs(s, i) IN
    IF j > Len(s) \/ s[j] /= Quote THEN 0
    ELSE LET q == StringEnd(s, j + 1)
             c == SkipWs(s, q + 1)
         IN IF q = 0 \/ c > Len(s) \/ s[c] /= ":" THEN 0
            ELSE LET v == ParseValue(s, c + 1)
                     k == SkipWs(s, v)
                 IN IF v = 0 \/ k > Len(s) THEN 0
                    ELSE IF s[k] = "," THEN ParseMembers(s, k + 1)
                    ELSE IF s[k] = "}" THEN k + 1
                    ELSE 0

\* json.loads(s) does not raise JSONDecodeError.
JsonLoads(s) ==
    LET e == ParseValue(s, 1) IN e /= 0 /\ SkipWs(s, e) > Len(s)

\* ------------------------------------------------------------------------
\* _extract_json_from_response
\* ------------------------------------------------------------------------
\* The backquote character of a text is written "^".
Backquote == "^"

FenceOpen == <<Backquote, Backquote, Backquote, "j", "s", "o", "n">>
FenceClose == <<Backquote, Backquote, Backquote>>

\* str.find / str.rfind of one character: 0 stands for the -1 of Python.
Find(s, c) ==
    IF \E i \in 1..Len(s) : s[i] = c
    THEN CHOOSE i \in 1..Len(s) : s[i] = c /\ \A j \in 1..(i - 1) : s[j] /= c
    ELSE 0

RFind(s, c) ==
    IF \E i \in 1..Len(s) : s[i] = c
    THEN CHOOSE i \in 1..Len(s) : s[i] = c /\ \A j \in (i + 1)..Len(s) : s[j] /= c
    ELSE 0

\* The start of the whitespace run that ends just before position j, not
\* before position g.
RECURSIVE WsRunStart(_, _, _)
WsRunStart(s, j, g) ==
    IF j > g /\ s[j - 1] \in Whitespace THEN WsRunStart(s, j - 1, g) ELSE j

\* re.search of the pattern  ^^^json\s*([\s\S]*?)\s*^^^  in s: the set of
\* matches, empty or holding group(1) of the leftmost match. The first \s*
\* is greedy and the group is lazy, so the group starts at the first
\* non-blank after the opening fence and ends before the blanks that precede
\* the first closing fence.
FenceMatches(s) ==
    LET opens == {i \in 1..Len(s) :
                    /\ MatchAt(s, FenceOpen, i)
                    /\ \E j \in (i + Len(FenceOpen))..Len(s) : MatchAt(s, FenceClose, j)}
    IN IF opens = {} THEN {}
       ELSE LET i == CHOOSE x \in opens : \A y \in opens : x <= y
                g == SkipWs(s, i + Len(FenceOpen))
                closes == {j \in g..Len(s) : MatchAt(s, FenceClose, j)}
                j == CHOOSE x \in closes : \A y \in closes : x <= y
            IN {SubSeq(s, g, WsRunStart(s, j, g) - 1)}

_extract_json_from_response(response_text) ==
    LET json_match == FenceMatches(response_text)
        json_str == Strip(IF json_match /= {}
                          THEN CHOOSE m \in json_match : TRUE
                          ELSE response_text)
    IN IF JsonLoads(json_str) THEN json_str
       ELSE LET start_idx == Find(json_str, "{")
                end_idx == RFind(json_str, "}")
            IN IF start_idx /= 0 /\ end_idx /= 0
               THEN SubSeq(json_str, start_idx, end_idx)
               ELSE json_str

\* ------------------------------------------------------------------------
\* The enrichment collaborators (agents). Each answers an invoke_async with a
\* text that is determined by the prompt it was given, or raises.
\* ------------------------------------------------------------------------
\* What the theme/layout agent may answer: JSON, fenced JSON, prose.
ThemeResponses ==
    { <<"{", "}">>, <<"x">> }

\* Answers of a theme/layout agent that keeps to no format: JSON, prose,
\* prose between blanks, prose around a brace span, braces in prose that
\* open after they close, and a fenced block that holds no JSON.
LooseThemeResponses ==
    { <<"{", "}">>,
      <<"x">>,
      <<" ", "x", "\n">>,
      <<"x", "{", "1", "}", "x">>,
      <<"}", "x", "{">>,
      FenceOpen \o <<"\n", "x", "\n">> \o FenceClose }

VizContent(slide_data_json) == <<"v">> \o slide_data_json

ImgContent(slide_data_json) == <<" ", "u">> \o slide_data_json \o <<"\n">>

GenContent(slide_data_json, fr) ==
    <<"html", slide_data_json, fr.theme_result, fr.visualization, fr.image_url>>

NarrContent(slide_data_json, slide_html) ==
    <<"narration", slide_html, slide_data_json>>

\* ------------------------------------------------------------------------
\* ContextManager
\* ------------------------------------------------------------------------
\* The keys convert_pdf_to_slides_async uses.
Keys == {"pdf_content", "slides"}

\* Stored values: None, "", [] and a non-empty one.
Values == {"None", "EmptyStr", "EmptyList", "content"}

KeyError == "KeyError"

\* __init__: self._result_store = {}
EmptyStore == [k \in {} |-> "None"]

\* As store_result, with an existing entry combined with the new value.
store_resultMerging(store, key, value) ==
    [k \in DOMAIN store \cup {key} |->
        IF k /= key THEN store[k]
        ELSE IF key \in DOMAIN store /\ store[key] /= value THEN "merged"
        ELSE value]

\* self._result_store[key] = value
store_result(store, key, value) ==
    [k \in DOMAIN store \cup {key} |-> IF k = key THEN value ELSE store[k]]

\* As get_result, with the entry tested for truth instead of membership.
get_resultTruthy(store, key) ==
    IF key \in DOMAIN store /\ store[key] \notin {"None", "EmptyStr", "EmptyList"}
    THEN store[key]
    ELSE KeyError

\* if key in self._result_store: return self._result_store[key]; raise KeyError
get_result(store, key) ==
    IF key \in DOMAIN store THEN store[key] ELSE KeyError

\* return key in self._result_store
has_result(store, key) == key \in DOMAIN store

\* self._result_store.clear()
clear_results(store) == EmptyStore

\* ------------------------------------------------------------------------
\* State
\* ------------------------------------------------------------------------
VARIABLES
    slide_data_list,   \* the argument of process_slides_in_parallel
    semaphore,         \* PDFExtractionSkill.semaphore: its free permits
    gather,            \* the future of asyncio.gather in process_slides_in_parallel
    slide_results,     \* what process_slides_in_parallel returned
    task,              \* per slide: where its process_single_slide coroutine is
    frame,             \* per slide: the local variables of its coroutine
    events,            \* per slide: the collaborator calls and returns so far
    task_result,       \* per slide: the outcome of its coroutine
    finished,          \* the slides in the order their coroutines ended
    _result_store,     \* ContextManager._result_store
    client,            \* per store client: the ContextManager call it is in
    ret,               \* per store client: what its last get_result/has_result gave
    written,           \* per key: the value last passed to store_result, if any
    pdf_file,          \* the file at pdf_path and what each loader makes of it
    conv,              \* the frame of convert_pdf_to_slides_async
    store_log,         \* the keys convert_pdf_to_slides_async stored, in order
    theme_agent,       \* the texts the theme/layout agent of this run may answer
    extract,           \* a call of _extract_json_from_response: argument and result
    chunking,          \* a call of _apply_hybrid_chunking: arguments, locals, result
    splitting,         \* a call of _apply_chunking_strategy: arguments, splitter, result
    presentation,      \* a call of _create_presentation_chunks: its loop and result
    font_scan,         \* a call of _analyze_document_fonts: its loops and font_info
    writing,           \* a call of _generate_presentation_files and the files it left
    images,            \* a call of process_images_in_parallel: semaphore and tasks
    main               \* main() of src/main.py around the conversion

pipelineVars ==
    <<slide_data_list, semaphore, theme_agent, gather, slide_results, task, frame,
      events, task_result, finished>>

storeVars == <<client, ret, written>>

convertVars == <<pdf_file, conv, store_log>>

extractVars == <<extract>>

chunkVars == <<chunking>>

skillVars == <<splitting, presentation, font_scan, writing, images>>

mainVars == <<main>>

vars ==
    <<pipelineVars, _result_store, storeVars, convertVars, extractVars, chunkVars,
      skillVars, mainVars>>

\* What the steps of one component leave alone (the result store apart).
notPipeline == <<storeVars, convertVars, extractVars, chunkVars, skillVars, mainVars>>

notStore == <<pipelineVars, convertVars, extractVars, chunkVars, skillVars, mainVars>>

notConvert == <<pipelineVars, storeVars, extractVars, chunkVars, skillVars, mainVars>>

Items == 1..Len(slide_data_list)

Awaiting == {"theme", "viz", "img", "gen", "narr"}

\* PDFExtractionSkill.__init__: max_concurrent_tasks: int = 5
DefaultMaxConcurrentTasks == 5

\* The permits PDFExtractionSkill may be constructed with: the default, or
\* a configured limit of one task at a time.
MaxConcurrentChoices == {1, DefaultMaxConcurrentTasks}

NewFrame ==
    [theme_response |-> Unset, theme_result |-> Unset, visualization |-> Unset, image_url |-> Unset,
     slide_html |-> Unset, narration |-> Unset]

NoResult == [kind |-> "none"]

RECURSIVE SeqsUpTo(_, _)
SeqsUpTo(S, n) ==
    IF n = 0 THEN {<<>>}
    ELSE LET shorter == SeqsUpTo(S, n - 1)
         IN shorter \cup {Append(q, x) : q \in {r \in shorter : Len(r) = n - 1}, x \in S}

\* ------------------------------------------------------------------------
\* process_single_slide
\* ------------------------------------------------------------------------
\* Whether stage st is executed for slide_data (the two if statements).
Executes(slide_data, st) ==
    IF st = "viz" THEN Get(slide_data, "HasData")
    ELSE IF st = "img" THEN Get(slide_data, "NeedsImage")
    ELSE TRUE

StageIndex(st) == CHOOSE k \in 1..Len(Stages) : Stages[k] = st

\* As NextStage, with the image search placed before the visualization.
NextStageImageFirst(slide_data, st) ==
    IF st = "theme" /\ Executes(slide_data, "img") THEN "img"
    ELSE IF st \in {"theme", "img"} /\ Executes(slide_data, "viz") THEN "viz"
    ELSE IF st \in {"theme", "img", "viz"} THEN "gen"
    ELSE IF st = "gen" THEN "narr"
    ELSE "done"

\* The stage process_single_slide calls after stage st has returned; "done"
\* after the narration.
NextStage(slide_data, st) ==
    LET later == {k \in (StageIndex(st) + 1)..Len(Stages) :
                     Executes(slide_data, Stages[k])}
    IN IF later = {} THEN "done"
       ELSE Stages[CHOOSE k \in later : \A m \in later : k <= m]

\* As Locals, with the stage outputs kept in one place for all coroutines.
SharedLocals(frames, i) == frames[1]

\* The local variables the coroutine of slide i reads: its own closure.
Locals(frames, i) == frames[i]

\* As GatherResults, with the results in the order of completion.
GatherAsCompleted(results, order) == [k \in 1..Len(order) |-> results[order[k]]]

\* asyncio.gather: the results in the order of the awaitables passed.
GatherResults(results, order) == [k \in 1..Len(order) |-> results[k]]

AllDone(tk) == \A i \in DOMAIN tk : tk[i] = "done"

\* The coroutine of slide i has ended with outcome res: gather's callback.
\* The first exception is propagated to the awaiter at once; the list is
\* delivered when the last awaitable is done.
Finish(i, tk, res) ==
    LET results == [task_result EXCEPT ![i] = res]
        order == Append(finished, i)
    IN /\ task' = tk
       /\ task_result' = results
       /\ finished' = order
       /\ IF gather = "pending" /\ res.kind = "exception"
          THEN gather' = "raised" /\ UNCHANGED slide_results
          ELSE IF gather = "pending" /\ AllDone(tk)
          THEN gather' = "returned" /\ slide_results' = GatherResults(results, order)
          ELSE UNCHANGED <<gather, slide_results>>

\* The call of process_slides_in_parallel: one coroutine per slide, then
\* asyncio.gather (which returns [] at once for no awaitables).
process_slides_in_parallel ==
    /\ gather = "idle"
    /\ IF slide_data_list = <<>>
       THEN gather' = "returned" /\ slide_results' = <<>>
       ELSE gather' = "pending" /\ UNCHANGED slide_results
    /\ UNCHANGED <<slide_data_list, semaphore, theme_agent, task, frame, events, task_result,
                   finished, _result_store>>

Running == gather \in {"pending", "raised"}

\* The coroutine of slide i runs up to its first await: the theme/layout call.
Start(i) ==
    /\ Running
    /\ task[i] = "created"
    /\ task' = [task EXCEPT ![i] = "theme"]
    /\ events' = [events EXCEPT ![i] = Append(@, <<"call", "theme">>)]
    /\ UNCHANGED <<slide_data_list, semaphore, theme_agent, gather, slide_results, frame,
                   task_result, finished, _result_store>>

\* Resume the coroutine of slide i after stage st with locals fr: call the
\* next stage, which suspends it again.
Continue(i, st, fr) ==
    LET next == NextStage(slide_data_list[i], st)
        \* image_url = "" is executed once the visualization step is behind
        fr2 == IF st = "viz" \/ (st = "theme" /\ next /= "viz")
               THEN [fr EXCEPT !.image_url = EmptyString]
               ELSE fr
    IN /\ frame' = [frame EXCEPT ![i] = fr2]
       /\ events' = [events EXCEPT ![i] = @ \o <<<<"return", st>>, <<"call", next>>>>]
       /\ task' = [task EXCEPT ![i] = next]
       /\ UNCHANGED <<slide_data_list, semaphore, theme_agent, gather, slide_results,
                      task_result, finished, _result_store>>

ThemeReturns(i) ==
    /\ Running
    /\ task[i] = "theme"
    /\ \E text \in theme_agent :
         Continue(i, "theme",
                  [Locals(frame, i) EXCEPT
                     !.theme_response = text,
                     !.theme_result = _extract_json_from_response(text),
                     !.visualization = EmptyString])

VizReturns(i) ==
    /\ Running
    /\ task[i] = "viz"
    /\ Continue(i, "viz",
                [Locals(frame, i) EXCEPT
                   !.visualization = VizContent(Dumps(slide_data_list[i]))])

ImgReturns(i) ==
    /\ Running
    /\ task[i] = "img"
    /\ Continue(i, "img",
                [Locals(frame, i) EXCEPT
                   !.image_url = Strip(ImgContent(Dumps(slide_data_list[i])))])

GenReturns(i) ==
    /\ Running
    /\ task[i] = "gen"
    /\ Continue(i, "gen",
                [Locals(frame, i) EXCEPT
                   !.slide_html = GenContent(Dumps(slide_data_list[i]), Locals(frame, i))])

NarrReturns(i) ==
    /\ Running
    /\ task[i] = "narr"
    /\ LET fr == [Locals(frame, i) EXCEPT
                    !.narration = NarrContent(Dumps(slide_data_list[i]),
                                              Locals(frame, i).slide_html)]
       IN /\ frame' = [frame EXCEPT ![i] = fr]
          /\ events' = [events EXCEPT ![i] = Append(@, <<"return", "narr">>)]
          /\ Finish(i, [task EXCEPT ![i] = "done"],
                    [kind |-> "result",
                     SlideNumber |-> slide_data_list[i].SlideNumber,
                     Title |-> EmptyString,
                     SlideHtml |-> fr.slide_html,
                     Narration |-> fr.narration])
    /\ UNCHANGED <<slide_data_list, semaphore, theme_agent, _result_store>>

\* As StageRaises, with one more try of a stage whose call raised.
StageRaisesRetried(i) ==
    /\ Running
    /\ task[i] \in Awaiting
    /\ IF \E k \in 1..Len(events[i]) : events[i][k] = <<"raise", task[i]>>
       THEN /\ events' = [events EXCEPT ![i] = Append(@, <<"raise", task[i]>>)]
            /\ Finish(i, [task EXCEPT ![i] = "raised"],
                      [kind |-> "exception", stage |-> task[i]])
       ELSE /\ events' = [events EXCEPT
                            ![i] = @ \o <<<<"raise", task[i]>>, <<"call", task[i]>>>>]
            /\ UNCHANGED <<gather, slide_results, task, task_result, finished>>
    /\ UNCHANGED <<slide_data_list, semaphore, theme_agent, frame, _result_store>>

\* The collaborator call slide i is awaiting raises: the coroutine ends with
\* that exception (process_single_slide has no handler).
StageRaises(i) ==
    /\ Running
    /\ task[i] \in Awaiting
    /\ events' = [events EXCEPT ![i] = Append(@, <<"raise", task[i]>>)]
    /\ Finish(i, [task EXCEPT ![i] = "raised"],
              [kind |-> "exception", stage |-> task[i]])
    /\ UNCHANGED <<slide_data_list, semaphore, theme_agent, frame, _result_store>>

\* The caller is cancelled while it awaits gather: gather cancels every
\* awaitable that is not done, and CancelledError reaches the caller.
Cancel ==
    /\ gather = "pending"
    /\ gather' = "cancelled"
    /\ task' = [i \in Items |->
                  IF task[i] \in Awaiting \cup {"created"} THEN "cancelled" ELSE task[i]]
    /\ task_result' = [i \in Items |->
                  IF task[i] \in Awaiting \cup {"created"}
                  THEN [kind |-> "cancelled"] ELSE task_result[i]]
    /\ UNCHANGED <<slide_data_list, semaphore, theme_agent, slide_results, frame, events,
                   finished, _result_store>>

\* ------------------------------------------------------------------------
\* convert_pdf_to_slides_async and the extraction it starts with
\* ------------------------------------------------------------------------
\* What a loader makes of the file: it raises, or returns so many documents.
Raises == -1

LoaderOutcomes == Raises..MaxDocs

PdfFiles ==
    [exists : BOOLEAN,              \* os.path.exists(pdf_path)
     unstructured : LoaderOutcomes, \* UnstructuredPDFLoader(...).load
     pymupdf : LoaderOutcomes,      \* PyMuPDFLoader(...).load
     fitz_opens : BOOLEAN]          \* fitz.open(pdf_path) succeeds

\* As Exists, with the check of the path left out.
ExistsUnchecked(file) == TRUE

\* os.path.exists(pdf_path)
Exists(file) == file.exists

NoPdfContent == [loader |-> "none", raw_documents |-> 0, total_chunks |-> 0]

\* preserve_tables is the default of extract_and_chunk_content (line 71):
\* line 99 of the orchestrator passes the path only.
NewConv ==
    [pc |-> "start", preserve_tables |-> TRUE, tried |-> <<>>, documents |-> 0,
     pdf_content |-> NoPdfContent, content_analyzer_agent |-> "unbound",
     result |-> "none"]

\* No conversion is under way.
ConvertIdle ==
    /\ pdf_file = [exists |-> FALSE, unstructured |-> Raises, pymupdf |-> Raises,
                   fitz_opens |-> FALSE]
    /\ conv = [NewConv EXCEPT !.pc = "idle"]
    /\ store_log = <<>>

\* No call of _extract_json_from_response is under way.
NoExtract == [pc |-> "idle", response_text |-> EmptyString, json_str |-> Unset]

ExtractIdle == extract = NoExtract

\* No call of _apply_hybrid_chunking is under way.
NoChunking ==
    [pc |-> "idle", paragraphs |-> <<>>, chunk_size |-> 0, chunk_overlap |-> 0,
     index |-> 0, current_chunk |-> <<>>, is_header |-> <<>>, chunks |-> <<>>,
     produced |-> <<>>]

ChunkIdle == chunking = NoChunking

\* No call of the other skills is under way, and main() is not running.
NoCall == [pc |-> "idle"]

SkillsIdle ==
    /\ splitting = NoCall
    /\ presentation = NoCall
    /\ font_scan = NoCall
    /\ writing = NoCall
    /\ images = NoCall

MainIdle == main = NoCall

\* The pipeline runner is not in use.
PipelineIdle ==
    /\ slide_data_list = <<>>
    /\ semaphore = DefaultMaxConcurrentTasks
    /\ theme_agent = ThemeResponses
    /\ gather = "idle"
    /\ slide_results = <<>>
    /\ task = <<>>
    /\ frame = <<>>
    /\ events = <<>>
    /\ task_result = <<>>
    /\ finished = <<>>

\* The result store of a fresh orchestrator and the tasks that may use it.
Clients == 1..NumClients

NotWritten == "NotWritten"

Idle == [pc |-> "idle", op |-> "none", key |-> "none"]

NoRet == "none"

StoreInit ==
    /\ _result_store = EmptyStore
    /\ client = [c \in Clients |-> Idle]
    /\ ret = [c \in Clients |-> NoRet]
    /\ written = [k \in Keys |-> NotWritten]

Init ==
    /\ slide_data_list \in SeqsUpTo(Slides, MaxItems)
    /\ semaphore \in MaxConcurrentChoices
    /\ theme_agent = ThemeResponses
    /\ gather = "idle"
    /\ slide_results = <<>>
    /\ task = [i \in Items |-> "created"]
    /\ frame = [i \in Items |-> NewFrame]
    /\ events = [i \in Items |-> <<>>]
    /\ task_result = [i \in Items |-> NoResult]
    /\ finished = <<>>
    /\ StoreInit
    /\ ConvertIdle
    /\ ExtractIdle
    /\ ChunkIdle
    /\ SkillsIdle
    /\ MainIdle

Next ==
    \/ process_slides_in_parallel /\ UNCHANGED notPipeline
    \/ Cancel /\ UNCHANGED notPipeline
    \/ \E i \in Items : Start(i) /\ UNCHANGED notPipeline
    \/ \E i \in Items : ThemeReturns(i) /\ UNCHANGED notPipeline
    \/ \E i \in Items : VizReturns(i) /\ UNCHANGED notPipeline
    \/ \E i \in Items : ImgReturns(i) /\ UNCHANGED notPipeline
    \/ \E i \in Items : GenReturns(i) /\ UNCHANGED notPipeline
    \/ \E i \in Items : NarrReturns(i) /\ UNCHANGED notPipeline
    \/ \E i \in Items : StageRaises(i) /\ UNCHANGED notPipeline

Spec == Init /\ [][Next]_vars

\* ------------------------------------------------------------------------
\* Properties of the pipeline runner
\* ------------------------------------------------------------------------
InFlight == {i \in Items : task[i] \in Awaiting}

Called(i, st) == \E k \in 1..Len(events[i]) : events[i][k] = <<"call", st>>

Returned(i, st) == \E k \in 1..Len(events[i]) : events[i][k] = <<"return", st>>

\* C1: when process_slides_in_parallel returns, the list has one element per
\* input slide and its i-th element is the result of the coroutine of the
\* i-th slide, computed from that slide, whatever the completion order.
C1_OrderPreserved ==
    gather = "returned" =>
        /\ Len(slide_results) = Len(slide_data_list)
        /\ \A i \in Items :
             /\ slide_results[i] = task_result[i]
             /\ slide_results[i].kind = "result"
             /\ slide_results[i].SlideNumber = slide_data_list[i].SlideNumber
             /\ slide_results[i].SlideHtml[2] = Dumps(slide_data_list[i])
             /\ slide_results[i].Narration[3] = Dumps(slide_data_list[i])

\* C1 witness: a run returned two different slides that completed in the
\* reverse of the input order.
C1_Witness ==
    /\ gather = "returned"
    /\ Len(slide_data_list) = 2
    /\ slide_data_list[1] /= slide_data_list[2]
    /\ finished = <<2, 1>>

\* C2: a slide whose stage raised yields the error as its own result, the
\* other slides run to completion, and the run returns one result per
\* slide: it does not fail as a whole.
C2_PartialFailureIsolated ==
    ((\E i \in Items : task[i] = "raised") /\ gather /= "cancelled") =>
        /\ gather /= "raised"
        /\ (\A i \in Items : task[i] \in {"done", "raised"}) =>
              /\ gather = "returned"
              /\ Len(slide_results) = Len(slide_data_list)
              /\ \A i \in Items : slide_results[i] = task_result[i]

\* C3: no more slides are in flight at once than the configured number of
\* concurrent tasks.
C3_BoundedInFlight == Cardinality(InFlight) <= semaphore

\* C4: for every slide the collaborator calls follow the order theme,
\* viz, img, gen, narr, and a stage is called only right after an earlier
\* stage of the same slide has returned; every return or raise answers the
\* call just before it.
C4_StagesInOrder ==
    \A i \in Items : \A k \in 1..Len(events[i]) :
        LET e == events[i][k] IN
        IF e[1] = "call"
        THEN IF k = 1 THEN e[2] = "theme"
             ELSE /\ events[i][k - 1][1] = "return"
                  /\ e[2] \in Awaiting
                  /\ StageIndex(events[i][k - 1][2]) < StageIndex(e[2])
        ELSE /\ k > 1
             /\ events[i][k - 1] = <<"call", e[2]>>

\* C4 witness: a slide has gone through all five stages while another
\* slide of the run is in the middle of its own.
C4_Witness ==
    \E i, j \in Items :
        /\ i /= j
        /\ task[i] = "done"
        /\ Len(events[i]) = 10
        /\ task[j] \in {"viz", "img", "gen"}

\* C5: after the caller cancels a run, every slide that was in flight has
\* been allowed to finish (only slides that never started are cancelled) and
\* the run hands back one slot per input slide.
C5_CancelKeepsSlots ==
    gather = "cancelled" =>
        /\ Len(slide_results) = Len(slide_data_list)
        /\ \A i \in Items : task[i] = "cancelled" => events[i] = <<>>

\* C6: the visualization agent is called only for slides whose HasData is
\* true and the image agent only for slides whose NeedsImage is true; once a
\* slide is past those steps each was called exactly when its flag is true,
\* a skipped stage has left the empty string for the slide generator, and a
\* finished slide has had its theme, slide and narration calls whatever its
\* flags.
C6_FlagsDecideStages ==
    \A i \in Items :
        LET sd == slide_data_list[i] IN
        /\ Called(i, "viz") => sd.HasData = "true"
        /\ Called(i, "img") => sd.NeedsImage = "true"
        /\ Called(i, "gen") =>
              /\ Called(i, "viz") <=> sd.HasData = "true"
              /\ Called(i, "img") <=> sd.NeedsImage = "true"
              /\ ~Called(i, "viz") => frame[i].visualization = EmptyString
              /\ ~Called(i, "img") => frame[i].image_url = EmptyString
        /\ Returned(i, "gen") =>
              /\ ~Called(i, "viz") => frame[i].slide_html[4] = EmptyString
              /\ ~Called(i, "img") => frame[i].slide_html[5] = EmptyString
        /\ task[i] = "done" =>
              Called(i, "theme") /\ Called(i, "gen") /\ Called(i, "narr")

\* C6 witness: a finished slide with HasData true and no NeedsImage key, in
\* a run with a finished slide that has no data and needs an image.
C6_Witness ==
    \E i, j \in Items :
        /\ task[i] = "done" /\ task[j] = "done"
        /\ slide_data_list[i].HasData = "true"
        /\ slide_data_list[i].NeedsImage = Absent
        /\ slide_data_list[j].HasData = "false"
        /\ slide_data_list[j].NeedsImage = "true"

\* The stage outputs fr of a slide sd with call log ev are the slide's own:
\* each is set only after the slide's own stage returned and is the answer
\* to the slide's own prompt.
OwnOutputs(fr, ev, sd) ==
    LET json == Dumps(sd)
        returned(st) == \E k \in 1..Len(ev) : ev[k] = <<"return", st>>
    IN /\ fr.theme_result /= Unset <=> returned("theme")
       /\ fr.visualization \in {Unset, EmptyString, VizContent(json)}
       /\ fr.visualization = VizContent(json) <=> returned("viz")
       /\ fr.image_url \in {Unset, EmptyString, Strip(ImgContent(json))}
       /\ fr.image_url = Strip(ImgContent(json)) <=> returned("img")
       /\ fr.slide_html /= Unset <=> returned("gen")
       /\ fr.slide_html /= Unset => fr.slide_html = GenContent(json, fr)
       /\ fr.narration /= Unset <=> returned("narr")
       /\ fr.narration /= Unset => fr.narration = NarrContent(json, fr.slide_html)

\* C7: a step changes the stage outputs of a slide only if it is a step of
\* that slide's own coroutine, the outputs a slide holds come from its own
\* stages alone, and no step of the concurrent phase touches the result
\* store.
C7_TasksIsolated ==
    [][ /\ \A i \in Items :
             /\ frame'[i] /= frame[i] =>
                   /\ task[i] \in Awaiting
                   /\ task'[i] /= task[i]
                   /\ \A j \in Items \ {i} :
                        task'[j] = task[j] /\ frame'[j] = frame[j]
             /\ OwnOutputs(frame'[i], events'[i], slide_data_list[i])
        /\ (gather \in {"pending", "raised"} => _result_store' = _result_store)
      ]_vars

\* C7 witness: two different slides are past their slide generation in one
\* run, each with its own outputs.
C7_Witness ==
    /\ Len(slide_data_list) = 2
    /\ slide_data_list[1] /= slide_data_list[2]
    /\ Returned(1, "gen") /\ Returned(2, "gen")
    /\ frame[1].visualization /= frame[2].visualization
    /\ gather = "pending"

\* ------------------------------------------------------------------------
\* Tasks using the ContextManager
\* ------------------------------------------------------------------------
StoreResult(c, key, value) ==
    /\ client[c].pc = "idle"
    /\ _result_store' = store_result(_result_store, key, value)
    /\ written' = [written EXCEPT ![key] = value]
    /\ UNCHANGED <<client, ret>>

\* get_result up to the membership test: a missing key raises at once.
GetResultTest(c, key) ==
    /\ client[c].pc = "idle"
    /\ IF has_result(_result_store, key)
       THEN /\ client' = [client EXCEPT ![c] = [pc |-> "found", op |-> "get", key |-> key]]
            /\ UNCHANGED ret
       ELSE /\ client' = [client EXCEPT ![c] = [pc |-> "idle", op |-> "get", key |-> key]]
            /\ ret' = [ret EXCEPT ![c] = get_result(_result_store, key)]
    /\ UNCHANGED <<_result_store, written>>

\* get_result after a passed membership test: the subscript of the
\* dictionary, which gives the entry or raises KeyError itself.
GetResultReturn(c) ==
    /\ client[c].pc = "found"
    /\ client' = [client EXCEPT ![c].pc = "idle"]
    /\ ret' = [ret EXCEPT ![c] = get_result(_result_store, client[c].key)]
    /\ UNCHANGED <<_result_store, written>>

HasResult(c, key) ==
    /\ client[c].pc = "idle"
    /\ client' = [client EXCEPT ![c] = [pc |-> "idle", op |-> "has", key |-> key]]
    /\ ret' = [ret EXCEPT ![c] = IF has_result(_result_store, key) THEN "True" ELSE "False"]
    /\ UNCHANGED <<_result_store, written>>

ClearResults(c) ==
    /\ client[c].pc = "idle"
    /\ _result_store' = clear_results(_result_store)
    /\ written' = [k \in Keys |-> NotWritten]
    /\ UNCHANGED <<client, ret>>

InitStore ==
    /\ slide_data_list = <<>>
    /\ semaphore = DefaultMaxConcurrentTasks
    /\ theme_agent = ThemeResponses
    /\ gather = "idle"
    /\ slide_results = <<>>
    /\ task = <<>>
    /\ frame = <<>>
    /\ events = <<>>
    /\ task_result = <<>>
    /\ finished = <<>>
    /\ StoreInit
    /\ ConvertIdle
    /\ ExtractIdle
    /\ ChunkIdle
    /\ SkillsIdle
    /\ MainIdle

NextStore ==
    \/ \E c \in Clients, k \in Keys, v \in Values :
         StoreResult(c, k, v) /\ UNCHANGED notStore
    \/ \E c \in Clients, k \in Keys : GetResultTest(c, k) /\ UNCHANGED notStore
    \/ \E c \in Clients : GetResultReturn(c) /\ UNCHANGED notStore
    \/ \E c \in Clients, k \in Keys : HasResult(c, k) /\ UNCHANGED notStore
    \/ \E c \in Clients : ClearResults(c) /\ UNCHANGED notStore

SpecStore == InitStore /\ [][NextStore]_vars

\* What a lookup of key must give after the calls made so far.
LastWritten(key) ==
    IF written[key] = NotWritten THEN KeyError ELSE written[key]

\* C8: at any point get_result gives the value of the most recent
\* store_result of the key, or fails with KeyError when the key was not
\* stored since the last clear_results; a key stored with an empty value is
\* found, and has_result says of each key whether it is stored.
C8_LastWriteWins ==
    \A k \in Keys :
        /\ get_result(_result_store, k) = LastWritten(k)
        /\ has_result(_result_store, k) <=> written[k] /= NotWritten

\* C8 witness: the key "slides" is stored with None while "pdf_content" is
\* not stored; a get_result of "slides" gave None and a has_result of it
\* gave True.
C8_Witness ==
    \E c, d \in Clients :
        /\ client[c] = [pc |-> "idle", op |-> "get", key |-> "slides"]
        /\ client[d] = [pc |-> "idle", op |-> "has", key |-> "slides"]
        /\ written["slides"] = "None"
        /\ written["pdf_content"] = NotWritten
        /\ ret[c] = "None"
        /\ ret[d] = "True"

\* C9: under every interleaving of the calls of concurrent tasks each
\* get_result that completes gives KeyError or the whole value last stored
\* under its key, and every entry of the store is a value that was passed
\* to store_result, never a combination of two.
C9_AtomicStore ==
    [][ /\ \A c \in Clients :
             (client'[c].op = "get" /\ client'[c].pc = "idle"
                /\ (client'[c] /= client[c] \/ ret'[c] /= ret[c]))
             => ret'[c] = LastWritten(client'[c].key)
        /\ \A k \in DOMAIN _result_store' : _result_store'[k] = written'[k]
      ]_vars

\* C9 witness: two tasks are inside get_result at once, past its
\* membership test, one of them for a key that another call has removed
\* since.
C9_Witness ==
    \E c, d \in Clients :
        /\ c /= d
        /\ client[c].pc = "found"
        /\ client[d].pc = "found"
        /\ written[client[c].key] = NotWritten
        /\ written[client[d].key] = "EmptyList"

\* ------------------------------------------------------------------------
\* Steps of convert_pdf_to_slides_async
\* ------------------------------------------------------------------------
\* As ReturnError, with the exception leaving convert_pdf_to_slides_async.
ReturnErrorRaised(why) ==
    conv' = [conv EXCEPT !.pc = "raised", !.result = <<"raised", why>>]

\* except Exception as e: return f"Error: {str(e)}"
ReturnError(why) ==
    conv' = [conv EXCEPT !.pc = "returned", !.result = <<"Error: ", why>>]

\* extract_and_chunk_content finds no file at pdf_path: FileNotFoundError.
ExtractNotFound ==
    /\ conv.pc = "start"
    /\ ~Exists(pdf_file)
    /\ ReturnError("PDF file not found")
    /\ UNCHANGED <<pdf_file, store_log, _result_store>>

\* As LoadUnstructured, with the handler of the first loader going to the
\* custom extraction at once.
LoadUnstructuredThenCustom ==
    /\ conv.pc = "start"
    /\ Exists(pdf_file)
    /\ conv.preserve_tables
    /\ IF pdf_file.unstructured = Raises
       THEN conv' = [conv EXCEPT !.pc = "custom", !.tried = Append(@, "unstructured")]
       ELSE conv' = [conv EXCEPT !.pc = "chunk",
                                 !.tried = Append(@, "unstructured"),
                                 !.documents = pdf_file.unstructured,
                                 !.pdf_content.loader = "unstructured"]
    /\ UNCHANGED <<pdf_file, store_log, _result_store>>

\* _load_pdf_with_langchain, preserve_tables: UnstructuredPDFLoader first.
LoadUnstructured ==
    /\ conv.pc = "start"
    /\ Exists(pdf_file)
    /\ conv.preserve_tables
    /\ IF pdf_file.unstructured = Raises
       THEN conv' = [conv EXCEPT !.pc = "pymupdf", !.tried = Append(@, "unstructured")]
       ELSE conv' = [conv EXCEPT !.pc = "chunk",
                                 !.tried = Append(@, "unstructured"),
                                 !.documents = pdf_file.unstructured,
                                 !.pdf_content.loader = "unstructured"]
    /\ UNCHANGED <<pdf_file, store_log, _result_store>>

\* _load_pdf_with_langchain without preserve_tables (lines 157-161):
\* PyMuPDFLoader first.
LoadPyMuPDFOnly ==
    /\ conv.pc = "start"
    /\ Exists(pdf_file)
    /\ ~conv.preserve_tables
    /\ IF pdf_file.pymupdf = Raises
       THEN conv' = [conv EXCEPT !.pc = "custom", !.tried = Append(@, "pymupdf")]
       ELSE conv' = [conv EXCEPT !.pc = "chunk",
                                 !.tried = Append(@, "pymupdf"),
                                 !.documents = pdf_file.pymupdf,
                                 !.pdf_content.loader = "pymupdf"]
    /\ UNCHANGED <<pdf_file, store_log, _result_store>>

\* The handler of the first loader: PyMuPDFLoader.
LoadPyMuPDF ==
    /\ conv.pc = "pymupdf"
    /\ IF pdf_file.pymupdf = Raises
       THEN conv' = [conv EXCEPT !.pc = "custom", !.tried = Append(@, "pymupdf")]
       ELSE conv' = [conv EXCEPT !.pc = "chunk",
                                 !.tried = Append(@, "pymupdf"),
                                 !.documents = pdf_file.pymupdf,
                                 !.pdf_content.loader = "pymupdf"]
    /\ UNCHANGED <<pdf_file, store_log, _result_store>>

\* The outer handler: _extract_with_pymupdf_fallback, one document of all
\* pages; fitz.open raising leaves extract_and_chunk_content with the
\* wrapped exception.
LoadCustom ==
    /\ conv.pc = "custom"
    /\ IF pdf_file.fitz_opens
       THEN conv' = [conv EXCEPT !.pc = "chunk", !.documents = 1,
                                 !.tried = Append(@, "custom"),
                                 !.pdf_content.loader = "custom"]
       ELSE conv' = [conv EXCEPT !.pc = "returned",
                                 !.tried = Append(@, "custom"),
                                 !.result = <<"Error: ", "Error processing PDF">>]
    /\ UNCHANGED <<pdf_file, store_log, _result_store>>

\* Steps 2 to 5 of extract_and_chunk_content (every document fits one
\* chunk), then store_result("pdf_content", ...) and the print of
\* get_result("pdf_content").
StorePdfContent ==
    /\ conv.pc = "chunk"
    /\ LET pdf_content == [conv.pdf_content EXCEPT
                              !.raw_documents = conv.documents,
                              !.total_chunks = conv.documents]
       IN /\ conv' = [conv EXCEPT !.pc = "line102", !.pdf_content = pdf_content]
          /\ _result_store' = store_result(_result_store, "pdf_content", pdf_content)
    /\ store_log' = Append(store_log, "pdf_content")
    /\ UNCHANGED pdf_file

\* Line 102: content_analyzer_agent.invoke_async(...) with the local name
\* content_analyzer_agent, which is bound at line 119 only.
InvokeContentAnalyzer ==
    /\ conv.pc = "line102"
    /\ IF conv.content_analyzer_agent = "unbound"
       THEN ReturnError("UnboundLocalError")
       ELSE conv' = [conv EXCEPT !.pc = "analyze"]
    /\ UNCHANGED <<pdf_file, store_log, _result_store>>

\* main() has made the orchestrator and awaits the conversion (line 80).
MainAwaiting == [pc |-> "awaiting", printed |-> <<>>, exit_code |-> -1]

\* Lines 80-103 of main(): the returned result is printed under the success
\* line, with the path of an index.html that is there, and main returns 0;
\* an exception out of the conversion is printed and main returns 1.
MainAfterConversion ==
    /\ main.pc = "awaiting"
    /\ conv.pc \in {"returned", "raised"}
    /\ IF conv.pc = "returned"
       THEN \E index_exists \in BOOLEAN :
              main' = [main EXCEPT
                         !.pc = "exited",
                         !.printed = <<"Conversion completed successfully!", conv.result>>
                                     \o (IF index_exists
                                         THEN <<"Presentation available at">> ELSE <<>>),
                         !.exit_code = 0]
       ELSE main' = [main EXCEPT !.pc = "exited",
                                 !.printed = <<"Error during conversion", conv.result>>,
                                 !.exit_code = 1]
    /\ UNCHANGED <<pipelineVars, _result_store, storeVars, convertVars, extractVars,
                   chunkVars, skillVars>>

InitConvert ==
    /\ slide_data_list = <<>>
    /\ semaphore = DefaultMaxConcurrentTasks
    /\ theme_agent = ThemeResponses
    /\ gather = "idle"
    /\ slide_results = <<>>
    /\ task = <<>>
    /\ frame = <<>>
    /\ events = <<>>
    /\ task_result = <<>>
    /\ finished = <<>>
    /\ StoreInit
    /\ pdf_file \in PdfFiles
    /\ conv = NewConv
    /\ store_log = <<>>
    /\ ExtractIdle
    /\ ChunkIdle
    /\ SkillsIdle
    /\ main = MainAwaiting

NextConvert ==
    \/ ExtractNotFound /\ UNCHANGED notConvert
    \/ LoadUnstructured /\ UNCHANGED notConvert
    \/ LoadPyMuPDF /\ UNCHANGED notConvert
    \/ LoadCustom /\ UNCHANGED notConvert
    \/ StorePdfContent /\ UNCHANGED notConvert
    \/ InvokeContentAnalyzer /\ UNCHANGED notConvert
    \/ MainAfterConversion

SpecConvert == InitConvert /\ [][NextConvert]_vars

\* The same conversion with extract_and_chunk_content called with either
\* value of preserve_tables.
InitLoad ==
    /\ PipelineIdle
    /\ StoreInit
    /\ pdf_file \in PdfFiles
    /\ \E preserve_tables \in BOOLEAN :
         conv = [NewConv EXCEPT !.preserve_tables = preserve_tables]
    /\ store_log = <<>>
    /\ ExtractIdle
    /\ ChunkIdle
    /\ SkillsIdle
    /\ main = MainAwaiting

NextLoad ==
    \/ NextConvert
    \/ LoadPyMuPDFOnly /\ UNCHANGED notConvert

SpecLoad == InitLoad /\ [][NextLoad]_vars

\* C10: a conversion whose extraction succeeded (a loader gave documents
\* and they were chunked) ends with the success message, having stored
\* "pdf_content", "content_analysis" and "slides" in that order.
C10_RunCompletes ==
    (conv.pc = "returned" /\ conv.pdf_content.total_chunks >= 1) =>
        /\ conv.result = <<"Presentation generated successfully">>
        /\ store_log = <<"pdf_content", "content_analysis", "slides">>

\* C11: when no file exists at pdf_path the conversion is over at once with
\* the not-found error: no loader was tried, no key was written to the
\* result store, no collaborator was invoked and no slide task was started.
C11_NotFoundAbortsRun ==
    (~pdf_file.exists /\ conv.pc /= "start") =>
        /\ conv.pc = "returned"
        /\ conv.result = <<"Error: ", "PDF file not found">>
        /\ conv.tried = <<>>
        /\ conv.pdf_content = NoPdfContent
        /\ store_log = <<>>
        /\ _result_store = EmptyStore
        /\ conv.content_analyzer_agent = "unbound"
        /\ gather = "idle"
        /\ task = <<>>

\* C11 witness: a conversion has ended on a path without a file, a path
\* for which every loader would have given documents had it been tried.
C11_Witness ==
    /\ ~pdf_file.exists
    /\ conv.pc = "returned"
    /\ pdf_file.unstructured >= 1
    /\ pdf_file.pymupdf >= 1
    /\ pdf_file.fitz_opens

\* C13: each of the five stages is called at most once for a slide: a call
\* of a stage comes after no call, return or raise of that stage in the
\* log of its slide, and a raise is the last event of its slide.
C13_NoRetries ==
    \A i \in Items :
        \A m \in 1..Len(events[i]) :
            /\ events[i][m][1] = "call" =>
                  \A k \in 1..(m - 1) : events[i][k][2] /= events[i][m][2]
            /\ events[i][m][1] = "raise" =>
                  m = Len(events[i]) /\ task[i] = "raised"

\* C13 witness: the slide generation of one slide has raised, after its
\* earlier stages returned, while another slide of the run has gone through
\* all five stages.
C13_Witness ==
    \E i, j \in Items :
        /\ task[i] = "raised"
        /\ events[i][Len(events[i])] = <<"raise", "gen">>
        /\ Returned(i, "viz") /\ Returned(i, "img")
        /\ task[j] = "done"
        /\ Len(events[j]) = 10

\* ------------------------------------------------------------------------
\* One slide and a theme/layout agent that keeps to no format
\* ------------------------------------------------------------------------
InitSlide ==
    /\ slide_data_list \in {<<slide_data>> : slide_data \in Slides}
    /\ semaphore = DefaultMaxConcurrentTasks
    /\ theme_agent = LooseThemeResponses
    /\ gather = "idle"
    /\ slide_results = <<>>
    /\ task = [i \in Items |-> "created"]
    /\ frame = [i \in Items |-> NewFrame]
    /\ events = [i \in Items |-> <<>>]
    /\ task_result = [i \in Items |-> NoResult]
    /\ finished = <<>>
    /\ StoreInit
    /\ ConvertIdle
    /\ ExtractIdle
    /\ ChunkIdle
    /\ SkillsIdle
    /\ MainIdle

SpecSlide == InitSlide /\ [][Next]_vars

\* C12: a theme/layout answer that cannot be read as JSON does not end the
\* slide: the slide goes on to its next stage, and what reaches the slide
\* generator as theme and layout is the text of the answer (up to the
\* blanks around it), nothing of it dropped.
C12_MalformedPropagatedRaw ==
    \A i \in Items :
        (Returned(i, "theme") /\ ~JsonLoads(frame[i].theme_result)) =>
            /\ Len(events[i]) >= 3
            /\ events[i][3][1] = "call"
            /\ frame[i].theme_result = Strip(frame[i].theme_response)
            /\ Returned(i, "gen") =>
                  frame[i].slide_html[3] = Strip(frame[i].theme_response)

\* ------------------------------------------------------------------------
\* Calls of _extract_json_from_response
\* ------------------------------------------------------------------------
\* What a text is made of: the two fences, braces, brackets, a digit, a
\* blank, a letter of prose and the quote.
Pieces ==
    { FenceOpen, FenceClose, <<"{">>, <<"}">>, <<"[">>, <<"]">>, <<"1">>, <<" ">>,
      <<"x">>, <<Quote>> }

RECURSIVE TextsOf(_)
TextsOf(n) ==
    IF n = 0 THEN {<<>>} ELSE {t \o p : t \in TextsOf(n - 1), p \in Pieces}

\* The texts of at most n pieces.
TextsUpTo(n) == UNION {TextsOf(k) : k \in 0..n}

\* JSON values, each written without insignificant whitespace.
Str(t) == <<Quote>> \o t \o <<Quote>>

Scalars ==
    Literals \cup
    { <<"1">>, <<"1", "2">>, Str(<<>>), Str(<<"x">>), Str(<<"x", " ", "x">>),
      Str(<<"}", "{">>), Str(FenceOpen \o <<" ", "1", " ">> \o FenceClose) }

Arr(elements) ==
    <<"[">> \o elements \o <<"]">>

Obj(key, value) ==
    <<"{">> \o Str(key) \o <<":">> \o value \o <<"}">>

JsonValues ==
    Scalars
    \cup {Arr(<<>>), <<"{", "}">>}
    \cup {Arr(a) : a \in Scalars}
    \cup {Arr(a \o <<",">> \o b) : a \in Scalars, b \in Scalars}
    \cup {Obj(<<"x">>, a) : a \in Scalars}
    \cup {Arr(Obj(<<"x">>, a) \o <<",">> \o <<"{", "}">>) : a \in Scalars}
    \cup {Obj(<<"x">>, Arr(a \o <<",">> \o b)) : a \in Scalars, b \in Scalars}

\* json.dumps(x) from the text of x without whitespace: a blank follows each
\* comma and colon that is not inside a string.
RECURSIVE Separated(_, _, _)
Separated(s, i, in_string) ==
    IF i > Len(s) THEN <<>>
    ELSE (IF ~in_string /\ s[i] \in {",", ":"} THEN <<s[i], " ">> ELSE <<s[i]>>)
         \o Separated(s, i + 1, IF s[i] = Quote THEN ~in_string ELSE in_string)

Serialize(x) == Separated(x, 1, FALSE)

\* The value a JSON text denotes, as its text without insignificant
\* whitespace: what json.loads of two texts gives is equal exactly when
\* these are equal.
RECURSIVE Compacted(_, _, _)
Compacted(s, i, in_string) ==
    IF i > Len(s) THEN <<>>
    ELSE (IF ~in_string /\ s[i] \in Whitespace THEN <<>> ELSE <<s[i]>>)
         \o Compacted(s, i + 1, IF s[i] = Quote THEN ~in_string ELSE in_string)

Denotes(s) == Compacted(s, 1, FALSE)

Serialized == {Serialize(x) : x \in JsonValues}

\* The call and return of _extract_json_from_response(response_text).
ExtractJson ==
    /\ extract.pc = "called"
    /\ extract' = [extract EXCEPT
                      !.pc = "returned",
                      !.json_str = _extract_json_from_response(extract.response_text)]
    /\ UNCHANGED <<pipelineVars, _result_store, storeVars, convertVars, chunkVars,
                   skillVars, mainVars>>

InitExtract ==
    /\ slide_data_list = <<>>
    /\ semaphore = DefaultMaxConcurrentTasks
    /\ theme_agent = ThemeResponses
    /\ gather = "idle"
    /\ slide_results = <<>>
    /\ task = <<>>
    /\ frame = <<>>
    /\ events = <<>>
    /\ task_result = <<>>
    /\ finished = <<>>
    /\ StoreInit
    /\ ConvertIdle
    /\ ChunkIdle
    /\ SkillsIdle
    /\ MainIdle
    /\ \E response_text \in TextsUpTo(MaxPieces) \cup Serialized :
         extract = [NoExtract EXCEPT !.pc = "called", !.response_text = response_text]

NextExtract == ExtractJson

SpecExtract == InitExtract /\ [][NextExtract]_vars

\* C14: whenever what _extract_json_from_response returns is not a
\* parseable payload, it is the text it was given, character for
\* character.
C14_PassThrough ==
    (extract.pc = "returned" /\ ~JsonLoads(extract.json_str)) =>
        extract.json_str = extract.response_text

\* C15: a text that parses as a whole is returned as that whole payload
\* (up to the blanks around it), whether or not it holds a fenced block;
\* a text that does not, and has a fenced block whose interior parses, is
\* returned as that interior.
C15_DirectParseFirst ==
    extract.pc = "returned" =>
        LET text == extract.response_text
            fenced == FenceMatches(text)
        IN IF JsonLoads(text) THEN extract.json_str = Strip(text)
           ELSE \A interior \in fenced :
                   JsonLoads(interior) => extract.json_str = Strip(interior)

\* Prose that is no JSON and holds no bracket, brace or fence.
IsProse(s) == \A k \in 1..Len(s) : s[k] \in {"x", " "}

\* C16: for a text without a fenced block that is prose, then one JSON
\* array or one JSON object, then prose, the function returns exactly that
\* array or object.
C16_SpanOfBracketsAndBraces ==
    (extract.pc = "returned" /\ FenceMatches(extract.response_text) = {}) =>
        LET text == extract.response_text IN
        \A i, j \in 1..Len(text) :
            ( /\ i < j
              /\ text[i] \in {"[", "{"}
              /\ IsProse(SubSeq(text, 1, i - 1))
              /\ IsProse(SubSeq(text, j + 1, Len(text)))
              /\ JsonLoads(SubSeq(text, i, j)) )
            => extract.json_str = SubSeq(text, i, j)

\* C17: for the serialization of every JSON value x, what the function
\* returns parses, and it denotes x again.
C17_RoundTrip ==
    (extract.pc = "returned" /\ extract.response_text \in Serialized) =>
        /\ JsonLoads(extract.json_str)
        /\ Denotes(extract.json_str) = Denotes(extract.response_text)

\* ------------------------------------------------------------------------
\* Hybrid chunking: _split_by_structure and _apply_hybrid_chunking
\* ------------------------------------------------------------------------
\* A paragraph is what text.split('\n\n') gives, after strip(): its length,
\* the length of its first line, and what the string tests of the two header
\* heuristics say of it:
\*   body      prose that no test accepts
\*   upper     all cased characters are upper case (str.isupper)
\*   hash      starts with '#'
\*   word      starts with one of the section words ('chapter', ...)
\*   colon     ends with ':'
\*   numbered  a numeral, blanks and a capital letter (the re.match)
\*   blank     nothing is left of it after strip()
\* A paragraph of 1000 characters or more holds none of the separators of
\* the recursive splitter.
ParagraphKinds == {"body", "upper", "hash", "word", "colon", "numbered"}

Paragraphs ==
    [kind : ParagraphKinds, len : {40, 150}, lines : {1}]
    \cup [kind : {"hash", "upper"}, len : {300}, lines : {2}]
    \cup [kind : {"body", "upper"}, len : {300, 800, 1500}, lines : {1}]
    \cup {[kind |-> "blank", len |-> 0, lines |-> 1]}

\* len(paragraph.split('\n')[0]): a paragraph of two lines has a first line
\* of 40 characters.
FirstLineLen(paragraph) == IF paragraph.lines = 1 THEN paragraph.len ELSE 40

\* The chunk_size and chunk_overlap a caller may ask for (overlap < size).
ChunkSizes == {500, 1000, 2000}

ChunkOverlaps == {0, 200}

\* self.recursive_splitter = RecursiveCharacterTextSplitter(chunk_size=1000,
\* chunk_overlap=200, ...)
RecursiveChunkSize == 1000

RecursiveChunkOverlap == 200

\* len('\n\n')
SeparatorLen == 2

\* The header test of _split_by_structure.
is_header(paragraph) ==
    /\ FirstLineLen(paragraph) < 100
    /\ \/ paragraph.kind = "hash"
       \/ paragraph.kind = "word"
       \/ paragraph.kind = "upper"

_is_likely_header(line) ==
    IF line.len = 0 \/ line.len > 200 THEN FALSE
    ELSE \/ line.kind = "upper"
         \/ line.kind = "hash"
         \/ line.kind = "word"
         \/ line.kind = "colon" /\ line.len < 100
         \/ line.kind = "numbered"

\* A chunk is a sequence of spans [p, lo, hi], characters lo..hi of
\* paragraph p, joined by '\n\n'.
Whole(paragraphs, k) == [p |-> k, lo |-> 1, hi |-> paragraphs[k].len]

SpanLen(span) == span.hi - span.lo + 1

RECURSIVE SumLen(_)
SumLen(chunk) ==
    IF chunk = <<>> THEN 0 ELSE SpanLen(Head(chunk)) + SumLen(Tail(chunk))

\* len(chunk_text)
ChunkLen(chunk) ==
    IF chunk = <<>> THEN 0 ELSE SumLen(chunk) + SeparatorLen * (Len(chunk) - 1)

\* RecursiveCharacterTextSplitter on a text without separators (the last
\* separator, ""): windows of chunk_size characters, each starting
\* chunk_size - chunk_overlap after the one before.
RECURSIVE Windows(_, _, _)
Windows(span, chunk_size, chunk_overlap) ==
    IF SpanLen(span) <= chunk_size THEN <<<<span>>>>
    ELSE <<<<[span EXCEPT !.hi = span.lo + chunk_size - 1]>>>>
         \o Windows([span EXCEPT !.lo = span.lo + chunk_size - chunk_overlap],
                    chunk_size, chunk_overlap)

\* _merge_splits: adding d to current would pass chunk_size.
Overflows(current, d, chunk_size) ==
    ChunkLen(current) + SpanLen(d) + (IF current /= <<>> THEN SeparatorLen ELSE 0)
        > chunk_size

\* _merge_splits: what is kept of current as the overlap in front of d.
RECURSIVE Shrink(_, _, _, _)
Shrink(current, d, chunk_size, chunk_overlap) ==
    IF current /= <<>> /\ (ChunkLen(current) > chunk_overlap
                            \/ Overflows(current, d, chunk_size))
    THEN Shrink(Tail(current), d, chunk_size, chunk_overlap)
    ELSE current

\* _merge_splits: the splits from the i-th on, joined greedily into chunks of
\* at most chunk_size.
RECURSIVE MergeSplits(_, _, _, _, _)
MergeSplits(splits, i, current, chunk_size, chunk_overlap) ==
    IF i > Len(splits) THEN (IF current = <<>> THEN <<>> ELSE <<current>>)
    ELSE IF current /= <<>> /\ Overflows(current, splits[i], chunk_size)
    THEN <<current>>
         \o MergeSplits(splits, i + 1,
                        Append(Shrink(current, splits[i], chunk_size, chunk_overlap),
                               splits[i]),
                        chunk_size, chunk_overlap)
    ELSE MergeSplits(splits, i + 1, Append(current, splits[i]),
                     chunk_size, chunk_overlap)

\* RecursiveCharacterTextSplitter.split_text on the paragraphs of a text,
\* from the i-th on, with good the splits below chunk_size not merged yet: a
\* paragraph not below chunk_size is split further, into windows.
RECURSIVE SplitText(_, _, _, _, _)
SplitText(splits, i, good, chunk_size, chunk_overlap) ==
    IF i > Len(splits) THEN MergeSplits(good, 1, <<>>, chunk_size, chunk_overlap)
    ELSE IF SpanLen(splits[i]) < chunk_size
    THEN SplitText(splits, i + 1, Append(good, splits[i]), chunk_size, chunk_overlap)
    ELSE MergeSplits(good, 1, <<>>, chunk_size, chunk_overlap)
         \o Windows(splits[i], chunk_size, chunk_overlap)
         \o SplitText(splits, i + 1, <<>>, chunk_size, chunk_overlap)

\* One pass of the loop of _split_by_structure over the paragraphs.
SplitParagraph ==
    /\ chunking.pc = "split"
    /\ chunking.index <= Len(chunking.paragraphs)
    /\ LET k == chunking.index
           paragraph == chunking.paragraphs[k]
       IN IF paragraph.len = 0
          THEN chunking' = [chunking EXCEPT !.index = k + 1,
                                            !.is_header = Append(@, "skipped")]
          ELSE IF is_header(paragraph) /\ chunking.current_chunk /= <<>>
          THEN chunking' = [chunking EXCEPT
                              !.index = k + 1,
                              !.is_header = Append(@, "header"),
                              !.chunks = Append(@, chunking.current_chunk),
                              !.current_chunk = <<Whole(chunking.paragraphs, k)>>]
          ELSE chunking' = [chunking EXCEPT
                              !.index = k + 1,
                              !.is_header = Append(@, IF is_header(paragraph)
                                                      THEN "header" ELSE "body"),
                              !.current_chunk = Append(@, Whole(chunking.paragraphs, k))]
    /\ UNCHANGED <<pipelineVars, _result_store, storeVars, convertVars, extractVars,
                   skillVars, mainVars>>

\* The end of _split_by_structure: the last buffer, and the return.
SplitReturn ==
    /\ chunking.pc = "split"
    /\ chunking.index > Len(chunking.paragraphs)
    /\ chunking' = [chunking EXCEPT
                       !.pc = "chunk",
                       !.index = 1,
                       !.current_chunk = <<>>,
                       !.chunks = IF chunking.current_chunk /= <<>>
                                  THEN Append(@, chunking.current_chunk) ELSE @]
    /\ UNCHANGED <<pipelineVars, _result_store, storeVars, convertVars, extractVars,
                   skillVars, mainVars>>

\* One pass of the loop of _apply_hybrid_chunking over the structural
\* chunks: a chunk above chunk_size goes through self.recursive_splitter.
ChunkStructural ==
    /\ chunking.pc = "chunk"
    /\ chunking.index <= Len(chunking.chunks)
    /\ LET chunk_text == chunking.chunks[chunking.index]
           sub_chunks == SplitText(chunk_text, 1, <<>>, RecursiveChunkSize,
                                   RecursiveChunkOverlap)
       IN chunking' = [chunking EXCEPT
                         !.index = @ + 1,
                         !.produced = Append(@, IF ChunkLen(chunk_text) > chunking.chunk_size
                                                THEN sub_chunks ELSE <<chunk_text>>)]
    /\ UNCHANGED <<pipelineVars, _result_store, storeVars, convertVars, extractVars,
                   skillVars, mainVars>>

ChunkReturn ==
    /\ chunking.pc = "chunk"
    /\ chunking.index > Len(chunking.chunks)
    /\ chunking' = [chunking EXCEPT !.pc = "returned"]
    /\ UNCHANGED <<pipelineVars, _result_store, storeVars, convertVars, extractVars,
                   skillVars, mainVars>>

InitChunk ==
    /\ slide_data_list = <<>>
    /\ semaphore = DefaultMaxConcurrentTasks
    /\ theme_agent = ThemeResponses
    /\ gather = "idle"
    /\ slide_results = <<>>
    /\ task = <<>>
    /\ frame = <<>>
    /\ events = <<>>
    /\ task_result = <<>>
    /\ finished = <<>>
    /\ StoreInit
    /\ ConvertIdle
    /\ ExtractIdle
    /\ SkillsIdle
    /\ MainIdle
    /\ \E paragraphs \in SeqsUpTo(Paragraphs, MaxParagraphs),
          chunk_size \in ChunkSizes, chunk_overlap \in ChunkOverlaps :
         chunking = [NoChunking EXCEPT !.pc = "split", !.index = 1,
                                       !.paragraphs = paragraphs,
                                       !.chunk_size = chunk_size,
                                       !.chunk_overlap = chunk_overlap]

NextChunk ==
    \/ SplitParagraph
    \/ SplitReturn
    \/ ChunkStructural
    \/ ChunkReturn

SpecChunk == InitChunk /\ [][NextChunk]_vars

\* chunked_docs: the chunks produced for all structural chunks, in order.
RECURSIVE Flatten(_)
Flatten(seqs) == IF seqs = <<>> THEN <<>> ELSE Head(seqs) \o Flatten(Tail(seqs))

chunked_docs == Flatten(chunking.produced)

\* C18: when _apply_hybrid_chunking returns, every structural chunk of at
\* most chunk_size has been emitted as one chunk, every longer one has been
\* split as the recursive strategy splits it under the requested chunk_size
\* and chunk_overlap, and no chunk is longer than chunk_size (plus one
\* separator).
C18_HybridChunksWithinSize ==
    chunking.pc = "returned" =>
        /\ \A k \in 1..Len(chunking.chunks) :
              LET chunk_text == chunking.chunks[k] IN
              IF ChunkLen(chunk_text) <= chunking.chunk_size
              THEN chunking.produced[k] = <<chunk_text>>
              ELSE chunking.produced[k] =
                       SplitText(chunk_text, 1, <<>>, chunking.chunk_size,
                                 chunking.chunk_overlap)
        /\ \A n \in 1..Len(chunked_docs) :
              ChunkLen(chunked_docs[n]) <= chunking.chunk_size + SeparatorLen

\* C19: when _apply_hybrid_chunking returns, every paragraph of the
\* document that is not blank and not longer than chunk_size lies whole in
\* one of the chunks.
C19_FittingParagraphNotSplit ==
    chunking.pc = "returned" =>
        \A k \in 1..Len(chunking.paragraphs) :
            (chunking.paragraphs[k].len >= 1
               /\ chunking.paragraphs[k].len <= chunking.chunk_size)
            => \E n \in 1..Len(chunked_docs) :
                  \E m \in 1..Len(chunked_docs[n]) :
                      chunked_docs[n][m] = Whole(chunking.paragraphs, k)

\* C20: _split_by_structure takes a paragraph for a header exactly when
\* _is_likely_header holds of it: each paragraph that is not blank was
\* judged a header exactly then, and a paragraph that follows other text
\* starts a new structural chunk exactly then.
C20_SameHeaderHeuristic ==
    /\ \A k \in 1..Len(chunking.is_header) :
          chunking.is_header[k] /= "skipped" =>
              (chunking.is_header[k] = "header"
                  <=> _is_likely_header(chunking.paragraphs[k]))
    /\ chunking.pc \in {"chunk", "returned"} =>
          \A k \in 1..Len(chunking.paragraphs) :
              (chunking.paragraphs[k].len >= 1
                 /\ \E j \in 1..(k - 1) : chunking.paragraphs[j].len >= 1)
              => ((\E n \in 1..Len(chunking.chunks) :
                      chunking.chunks[n][1] = Whole(chunking.paragraphs, k))
                  <=> _is_likely_header(chunking.paragraphs[k]))

\* ------------------------------------------------------------------------
\* _apply_chunking_strategy and the splitters it builds
\* ------------------------------------------------------------------------
\* separators=["\n\n", "\n", ".", "!", "?", ",", " ", ""] of the "recursive"
\* strategy.
Separators ==
    << <<"\n", "\n">>, <<"\n">>, <<".">>, <<"!">>, <<"?">>, <<",">>, <<" ">>, <<>> >>

\* The separators of a RecursiveCharacterTextSplitter built without the
\* separators argument: ["\n\n", "\n", " ", ""].
DefaultSeparators == << <<"\n", "\n">>, <<"\n">>, <<" ">>, <<>> >>

\* re.search(re.escape(separator), text)
Contains(text, separator) == \E i \in 1..Len(text) : MatchAt(text, separator, i)

\* _split_text_with_regex(text, separator, keep_separator=True) from
\* character i on, the piece under way starting at start: the text is cut in
\* front of every occurrence of the separator, which stays at the head of the
\* piece after it; with the separator "" it is cut into its characters. Empty
\* pieces are dropped.
RECURSIVE SplitKeepingSeparator(_, _, _, _)
SplitKeepingSeparator(text, separator, i, start) ==
    IF i > Len(text)
    THEN (IF start > Len(text) THEN <<>> ELSE <<SubSeq(text, start, Len(text))>>)
    ELSE IF separator = <<>>
    THEN <<SubSeq(text, i, i)>> \o SplitKeepingSeparator(text, separator, i + 1, i + 1)
    ELSE IF MatchAt(text, separator, i)
    THEN (IF i > start THEN <<SubSeq(text, start, i - 1)>> ELSE <<>>)
         \o SplitKeepingSeparator(text, separator, i + Len(separator), i)
    ELSE SplitKeepingSeparator(text, separator, i + 1, start)

\* "".join(docs)
RECURSIVE Join(_)
Join(docs) == IF docs = <<>> THEN <<>> ELSE Head(docs) \o Join(Tail(docs))

\* _join_docs: the pieces joined and stripped, and no chunk when nothing is
\* left.
JoinDocs(current_doc) ==
    IF Strip(Join(current_doc)) = <<>> THEN <<>> ELSE <<Strip(Join(current_doc))>>

\* _merge_splits: the pieces popped from the front of current_doc after a
\* chunk was emitted, d being the piece to add.
\* As PopFront, with nothing popped: the emitted chunk stays in current_doc.
PopFrontNothing(current_doc, d, chunk_size, chunk_overlap) == current_doc

RECURSIVE PopFront(_, _, _, _)
PopFront(current_doc, d, chunk_size, chunk_overlap) ==
    LET total == Len(Join(current_doc))
    IN IF total > chunk_overlap \/ (total + Len(d) > chunk_size /\ total > 0)
       THEN PopFront(Tail(current_doc), d, chunk_size, chunk_overlap)
       ELSE current_doc

\* _merge_splits(splits, "") from the i-th piece on.
RECURSIVE _merge_splits(_, _, _, _, _)
_merge_splits(splits, i, current_doc, chunk_size, chunk_overlap) ==
    IF i > Len(splits) THEN JoinDocs(current_doc)
    ELSE IF Len(Join(current_doc)) + Len(splits[i]) > chunk_size /\ current_doc /= <<>>
    THEN JoinDocs(current_doc)
         \o _merge_splits(splits, i + 1,
                          Append(PopFront(current_doc, splits[i], chunk_size,
                                          chunk_overlap),
                                 splits[i]),
                          chunk_size, chunk_overlap)
    ELSE _merge_splits(splits, i + 1, Append(current_doc, splits[i]),
                       chunk_size, chunk_overlap)

\* The first separator of the list that is "" or occurs in the text.
RECURSIVE FirstSeparator(_, _, _)
FirstSeparator(text, separators, i) ==
    IF i >= Len(separators) \/ separators[i] = <<>> \/ Contains(text, separators[i])
    THEN i
    ELSE FirstSeparator(text, separators, i + 1)

\* RecursiveCharacterTextSplitter._split_text(text, separators), and its loop
\* over the pieces from the i-th on with _good_splits the pieces below
\* chunk_size not merged yet.
RECURSIVE _split_text(_, _, _, _)
RECURSIVE SplitPieces(_, _, _, _, _, _)
_split_text(text, separators, chunk_size, chunk_overlap) ==
    LET k == FirstSeparator(text, separators, 1)
        found == separators[k] = <<>> \/ Contains(text, separators[k])
        new_separators ==
            IF found /\ separators[k] /= <<>>
            THEN SubSeq(separators, k + 1, Len(separators)) ELSE <<>>
    IN SplitPieces(SplitKeepingSeparator(text, separators[k], 1, 1), 1, <<>>,
                   new_separators, chunk_size, chunk_overlap)

SplitPieces(splits, i, _good_splits, new_separators, chunk_size, chunk_overlap) ==
    IF i > Len(splits)
    THEN _merge_splits(_good_splits, 1, <<>>, chunk_size, chunk_overlap)
    ELSE IF Len(splits[i]) < chunk_size
    THEN SplitPieces(splits, i + 1, Append(_good_splits, splits[i]), new_separators,
                     chunk_size, chunk_overlap)
    ELSE _merge_splits(_good_splits, 1, <<>>, chunk_size, chunk_overlap)
         \o (IF new_separators = <<>> THEN <<splits[i]>>
             ELSE _split_text(splits[i], new_separators, chunk_size, chunk_overlap))
         \o SplitPieces(splits, i + 1, <<>>, new_separators, chunk_size, chunk_overlap)

\* splitter.split_documents(documents): the chunks of each document in turn.
RECURSIVE split_documents(_, _, _, _)
split_documents(documents, separators, chunk_size, chunk_overlap) ==
    IF documents = <<>> THEN <<>>
    ELSE _split_text(Head(documents), separators, chunk_size, chunk_overlap)
         \o split_documents(Tail(documents), separators, chunk_size, chunk_overlap)

\* The characters of the texts handed to the splitter: a letter, a sentence
\* terminator, a blank and a line break.
SplitAlphabet == {"a", ".", " ", "\n"}

RECURSIVE CharTextsOf(_)
CharTextsOf(n) ==
    IF n = 0 THEN {<<>>}
    ELSE {Append(t, c) : t \in CharTextsOf(n - 1), c \in SplitAlphabet}

CharTextsUpTo(n) == UNION {CharTextsOf(k) : k \in 0..n}

\* The strategy names handed to _apply_chunking_strategy that end in a
\* RecursiveCharacterTextSplitter: "recursive", "semantic" and a name the
\* method does not know. ("markdown" and "token" build splitters of other
\* classes, "hybrid" is _apply_hybrid_chunking.)
Strategies == {"recursive", "semantic", "sentence"}

\* The chunk_size and chunk_overlap of the call, in characters.
SplitSizes == {2, 3}

SplitOverlaps == {0, 1}

\* Lines 182-215: the splitter built for the strategy.
BuildSplitter ==
    /\ splitting.pc = "called"
    /\ splitting.strategy \in Strategies
    /\ splitting' = [splitting EXCEPT
                       !.pc = "split",
                       !.separators = IF splitting.strategy = "recursive"
                                      THEN Separators ELSE DefaultSeparators]
    /\ UNCHANGED <<pipelineVars, _result_store, storeVars, convertVars, extractVars,
                   chunkVars, presentation, font_scan, writing, images, mainVars>>

\* Lines 218-222: splitter.split_documents(documents), and the return.
SplitDocuments ==
    /\ splitting.pc = "split"
    /\ splitting' = [splitting EXCEPT
                       !.pc = "returned",
                       !.chunked_docs = split_documents(splitting.documents,
                                                        splitting.separators,
                                                        splitting.chunk_size,
                                                        splitting.chunk_overlap)]
    /\ UNCHANGED <<pipelineVars, _result_store, storeVars, convertVars, extractVars,
                   chunkVars, presentation, font_scan, writing, images, mainVars>>

InitStrategy ==
    /\ PipelineIdle
    /\ StoreInit
    /\ ConvertIdle
    /\ ExtractIdle
    /\ ChunkIdle
    /\ MainIdle
    /\ presentation = NoCall
    /\ font_scan = NoCall
    /\ writing = NoCall
    /\ images = NoCall
    /\ \E text \in CharTextsUpTo(MaxChars), strategy \in Strategies,
          chunk_size \in SplitSizes, chunk_overlap \in SplitOverlaps :
         splitting = [pc |-> "called", documents |-> <<text>>, strategy |-> strategy,
                      chunk_size |-> chunk_size, chunk_overlap |-> chunk_overlap,
                      separators |-> <<>>, chunked_docs |-> <<>>]

NextStrategy ==
    \/ BuildSplitter
    \/ SplitDocuments

SpecStrategy == InitStrategy /\ [][NextStrategy]_vars

\* C21: a call of _apply_chunking_strategy with a strategy name other than
\* "recursive", "markdown", "token" and "hybrid" returns the chunks that the
\* "recursive" strategy gives for the same documents, chunk_size and
\* chunk_overlap, that is the chunks of the splitter with the separators
\* "\n\n", "\n", ".", "!", "?", ",", " ", "".
C21_UnknownStrategyIsRecursive ==
    (splitting.pc = "returned"
       /\ splitting.strategy \notin {"recursive", "markdown", "token", "hybrid"})
    => splitting.chunked_docs
           = split_documents(splitting.documents, Separators, splitting.chunk_size,
                             splitting.chunk_overlap)

\* The chunks of a returned "recursive" call are at least two and each is at
\* most chunk_size plus one separator long.
ManyBoundedChunks ==
    /\ Len(splitting.chunked_docs) >= 2
    /\ \A n \in 1..Len(splitting.chunked_docs) :
          \E k \in 1..Len(Separators) :
              Len(splitting.chunked_docs[n]) <= splitting.chunk_size + Len(Separators[k])

\* C22 as stated: the "recursive" strategy on a text longer than chunk_size
\* (chunk_overlap < chunk_size) returns at least two chunks, each at most
\* chunk_size plus one separator long.
C22_LongTextManyChunks ==
    (splitting.pc = "returned" /\ splitting.strategy = "recursive"
       /\ Len(splitting.documents[1]) > splitting.chunk_size)
    => ManyBoundedChunks

\* C22 as amended: the same of a text that is longer than chunk_size once
\* the white space at its two ends is taken off.
C22_StrippedLongTextManyChunks ==
    (splitting.pc = "returned" /\ splitting.strategy = "recursive"
       /\ Len(Strip(splitting.documents[1])) > splitting.chunk_size)
    => ManyBoundedChunks

\* C22 witness: a "recursive" call with an overlap has returned three chunks
\* or more for a text that holds a sentence terminator and a blank and is
\* longer than chunk_size between its first and last visible character.
C22_Witness ==
    /\ splitting.pc = "returned"
    /\ splitting.strategy = "recursive"
    /\ splitting.chunk_overlap = 1
    /\ Len(Strip(splitting.documents[1])) > splitting.chunk_size
    /\ Contains(splitting.documents[1], <<".">>)
    /\ Contains(splitting.documents[1], <<" ">>)
    /\ Len(splitting.chunked_docs) >= 3

\* ------------------------------------------------------------------------
\* Properties of the extraction in convert_pdf_to_slides_async
\* ------------------------------------------------------------------------
\* C23: extract_and_chunk_content never returns a result without chunks: a
\* result that was stored under "pdf_content" has at least one chunk, so a
\* file of which no loader makes a document ends the call with its error.
C23_NoEmptySuccess ==
    /\ store_log /= <<>> => conv.pdf_content.total_chunks >= 1
    /\ (conv.pc = "returned" /\ conv.documents = 0) =>
           \/ conv.result = <<"Error: ", "PDF file not found">>
           \/ conv.result = <<"Error: ", "Error processing PDF">>

\* ------------------------------------------------------------------------
\* _create_presentation_chunks: _analyze_content_type, _extract_key_points
\* ------------------------------------------------------------------------
\* The bullet character U+2022 of the source, which a module cannot spell.
Bullet == "*"

UpperCase ==
    <<"A", "B", "C", "D", "E", "F", "G", "H", "I", "J", "K", "L", "M",
      "N", "O", "P", "Q", "R", "S", "T", "U", "V", "W", "X", "Y", "Z">>

LowerCase ==
    <<"a", "b", "c", "d", "e", "f", "g", "h", "i", "j", "k", "l", "m",
      "n", "o", "p", "q", "r", "s", "t", "u", "v", "w", "x", "y", "z">>

\* str.lower()
Lower(s) ==
    [i \in 1..Len(s) |->
        IF \E k \in 1..Len(UpperCase) : UpperCase[k] = s[i]
        THEN LowerCase[CHOOSE k \in 1..Len(UpperCase) : UpperCase[k] = s[i]]
        ELSE s[i]]

\* The text with the characters of a word given as a string of the source.
Chars(word) ==
    CASE word = "figure" -> <<"f", "i", "g", "u", "r", "e">>
      [] word = "chart" -> <<"c", "h", "a", "r", "t">>
      [] word = "important" -> <<"i", "m", "p", "o", "r", "t", "a", "n", "t">>
      [] word = "key" -> <<"k", "e", "y">>
      [] word = "Key" -> <<"K", "e", "y">>
      [] word = "main" -> <<"m", "a", "i", "n">>
      [] word = "essential" -> <<"e", "s", "s", "e", "n", "t", "i", "a", "l">>
      [] word = "First" -> <<"F", "i", "r", "s", "t">>
      [] word = "first" -> <<"f", "i", "r", "s", "t">>
      [] word = "Second" -> <<"S", "e", "c", "o", "n", "d">>
      [] word = "Finally" -> <<"F", "i", "n", "a", "l", "l", "y">>
      [] word = "x" -> <<"x">>

\* str.count(pattern) from character i on: occurrences that do not overlap.
RECURSIVE Count(_, _, _)
Count(s, pattern, i) ==
    IF i + Len(pattern) - 1 > Len(s) THEN 0
    ELSE IF MatchAt(s, pattern, i) THEN 1 + Count(s, pattern, i + Len(pattern))
    ELSE Count(s, pattern, i + 1)

\* str.split(c) from character i on, the piece under way starting at start.
RECURSIVE Split(_, _, _, _)
Split(s, c, i, start) ==
    IF i > Len(s) THEN <<SubSeq(s, start, Len(s))>>
    ELSE IF s[i] = c THEN <<SubSeq(s, start, i - 1)>> \o Split(s, c, i + 1, i + 1)
    ELSE Split(s, c, i + 1, start)

\* The figure vocabulary and the importance words of the source that are
\* written in ASCII (the texts of the model hold no other letters, so the
\* Vietnamese words of the two lists occur in none of them).
FigureWords == {"figure", "chart"}

importance_words == <<"important", "key", "main", "essential">>

Openers == {"First", "Second", "Finally"}

_analyze_content_type(content) ==
    IF Count(content, <<"|">>, 1) > 5 THEN "table"
    ELSE IF Count(content, <<"\n", "-">>, 1) > 2 \/ Count(content, <<"\n", Bullet>>, 1) > 2
    THEN "list"
    ELSE IF \E word \in FigureWords : Contains(Lower(content), Chars(word))
    THEN "figure_reference"
    ELSE IF Len(Split(content, "\n", 1, 1)) > 10 THEN "long_text"
    ELSE "paragraph"

\* content.replace('\n', ' ')
ReplaceNewlines(content) ==
    [i \in 1..Len(content) |-> IF content[i] = "\n" THEN " " ELSE content[i]]

\* The importance_score of a sentence.
RECURSIVE importance_score(_, _)
importance_score(sentence, k) ==
    IF k > Len(importance_words) THEN 0
    ELSE (IF Contains(Lower(sentence), Chars(importance_words[k])) THEN 1 ELSE 0)
         + importance_score(sentence, k + 1)

\* The test of line 500 on the length of a sentence.
LengthEligible(sentence) == Len(sentence) > 20 /\ Len(sentence) < 200

\* The loop of _extract_key_points over the sentences from the k-th on.
RECURSIVE KeyPointsFrom(_, _)
KeyPointsFrom(sentences, k) ==
    IF k > Len(sentences) THEN <<>>
    ELSE LET sentence == Strip(sentences[k])
         IN (IF LengthEligible(sentence)
                /\ (importance_score(sentence, 1) > 0
                    \/ \E word \in Openers : MatchAt(sentence, Chars(word), 1))
             THEN <<sentence>> ELSE <<>>)
            \o KeyPointsFrom(sentences, k + 1)

\* key_points[:5]
FirstFive(key_points) == SubSeq(key_points, 1, IF Len(key_points) < 5 THEN Len(key_points) ELSE 5)

_extract_key_points(content) ==
    FirstFive(KeyPointsFrom(Split(ReplaceNewlines(content), ".", 1, 1), 1))

\* _suggest_slide_structure: the layout for a content type.
_suggest_slide_structure(content_type) ==
    CASE content_type = "table" -> "table"
      [] content_type = "list" -> "bullet_points"
      [] content_type = "long_text" -> "text_heavy"
      [] OTHER -> "title_content"

\* The chunks handed to _create_presentation_chunks are made of blocks, a
\* piece of text repeated a number of times. The pieces are the marks the
\* classifier counts (a pipe, a dash, a line that starts with a dash or a
\* bullet, a line of text, a figure word) and sentences: an opening word
\* padded to a given length, a terminator and a blank.
RECURSIVE Repeat(_, _)
Repeat(piece, times) == IF times = 0 THEN <<>> ELSE piece \o Repeat(piece, times - 1)

Sentence(opener, length, terminator) ==
    Chars(opener) \o [i \in 1..(length - Len(Chars(opener))) |-> "a"]
        \o <<terminator, " ">>

LinePieces ==
    { <<"|">>, <<"-">>, <<"\n", "-">>, <<"\n", Bullet>>, <<"\n", "a">>, Chars("figure") }

LineBlocks == [piece : LinePieces, times : {1, 2, 3, 6, 11}]

SentenceBlocks ==
    [piece : {Sentence(o, l, t) : o \in {"key", "Key", "First", "x"},
                                  l \in {20, 21, 199, 200}, t \in {".", "!"}},
     times : {1}]
    \cup [piece : {Sentence(o, l, t) : o \in {"key", "Key", "First", "x"},
                                       l \in {20, 21}, t \in {".", "!"}},
          times : {6}]

RECURSIVE Expand(_)
Expand(blocks) ==
    IF blocks = <<>> THEN <<>>
    ELSE Repeat(Head(blocks).piece, Head(blocks).times) \o Expand(Tail(blocks))

PageContents(n) == {Expand(blocks) : blocks \in SeqsUpTo(LineBlocks \cup SentenceBlocks, n)}

\* One pass of the loop of _create_presentation_chunks (lines 451-472).
PresentChunk ==
    /\ presentation.pc = "called"
    /\ presentation.i <= Len(presentation.chunked_docs)
    /\ LET content == Strip(presentation.chunked_docs[presentation.i])
           content_type == _analyze_content_type(content)
           key_points == _extract_key_points(content)
       IN presentation' = [presentation EXCEPT
             !.i = @ + 1,
             !.presentation_chunks =
                 Append(@, [chunk_id |-> presentation.i - 1,
                            content |-> content,
                            content_type |-> content_type,
                            key_points |-> key_points,
                            slide_structure |-> _suggest_slide_structure(content_type),
                            estimated_slides |-> IF Len(key_points) \div 3 > 1
                                                 THEN Len(key_points) \div 3 ELSE 1])]
    /\ UNCHANGED <<pipelineVars, _result_store, storeVars, convertVars, extractVars,
                   chunkVars, splitting, font_scan, writing, images, mainVars>>

\* return presentation_chunks
PresentReturn ==
    /\ presentation.pc = "called"
    /\ presentation.i > Len(presentation.chunked_docs)
    /\ presentation' = [presentation EXCEPT !.pc = "returned"]
    /\ UNCHANGED <<pipelineVars, _result_store, storeVars, convertVars, extractVars,
                   chunkVars, splitting, font_scan, writing, images, mainVars>>

InitPresentation ==
    /\ PipelineIdle
    /\ StoreInit
    /\ ConvertIdle
    /\ ExtractIdle
    /\ ChunkIdle
    /\ MainIdle
    /\ splitting = NoCall
    /\ font_scan = NoCall
    /\ writing = NoCall
    /\ images = NoCall
    /\ \E page_content \in PageContents(MaxBlocks) :
         presentation = [pc |-> "called", chunked_docs |-> <<page_content>>, i |-> 1,
                         presentation_chunks |-> <<>>]

NextPresentation ==
    \/ PresentChunk
    \/ PresentReturn

SpecPresentation == InitPresentation /\ [][NextPresentation]_vars

\* The lines of a chunk that start with a bullet marker, '-' or the bullet.
BulletLines(content) ==
    LET lines == Split(content, "\n", 1, 1)
    IN Cardinality({k \in 1..Len(lines) :
                       lines[k] /= <<>> /\ lines[k][1] \in {"-", Bullet}})

\* C24: every chunk is classified by the first rule that matches: more than
\* 5 pipes, table; else more than 2 lines that start with a bullet marker
\* (the first line counted, '-' and the bullet counted together), list; else
\* a figure word, figure_reference; else more than 10 lines, long_text; else
\* paragraph.
C24_FirstMatchingRule ==
    \A k \in 1..Len(presentation.presentation_chunks) :
        LET chunk == presentation.presentation_chunks[k]
            content == chunk.content
        IN chunk.content_type =
             IF Count(content, <<"|">>, 1) > 5 THEN "table"
             ELSE IF BulletLines(content) > 2 THEN "list"
             ELSE IF \E word \in FigureWords : Contains(Lower(content), Chars(word))
             THEN "figure_reference"
             ELSE IF Len(Split(content, "\n", 1, 1)) > 10 THEN "long_text"
             ELSE "paragraph"

\* The text cut at every sentence terminator, from character i on.
RECURSIVE SplitAtTerminators(_, _, _)
SplitAtTerminators(s, i, start) ==
    IF i > Len(s) THEN <<SubSeq(s, start, Len(s))>>
    ELSE IF s[i] \in {".", "!", "?"}
    THEN <<SubSeq(s, start, i - 1)>> \o SplitAtTerminators(s, i + 1, i + 1)
    ELSE SplitAtTerminators(s, i + 1, start)

\* C25: the key points of a chunk are, in their order, the first five of its
\* sentences (the runs between sentence terminators, stripped) that have 20
\* to 199 characters and hold an importance word in any case or open with
\* an ordinal word.
C25_KeyPointsOfChunk ==
    \A k \in 1..Len(presentation.presentation_chunks) :
        LET chunk == presentation.presentation_chunks[k]
            sentences == SplitAtTerminators(ReplaceNewlines(chunk.content), 1, 1)
            stripped == [n \in 1..Len(sentences) |-> Strip(sentences[n])]
            eligible(n) ==
                /\ Len(stripped[n]) >= 20
                /\ Len(stripped[n]) < 200
                /\ \/ importance_score(stripped[n], 1) > 0
                   \/ \E word \in Openers : MatchAt(stripped[n], Chars(word), 1)
            RECURSIVE Kept(_)
            Kept(n) ==
                IF n > Len(stripped) THEN <<>>
                ELSE (IF eligible(n) THEN <<stripped[n]>> ELSE <<>>) \o Kept(n + 1)
        IN chunk.key_points = FirstFive(Kept(1))

\* ------------------------------------------------------------------------
\* _analyze_document_fonts
\* ------------------------------------------------------------------------
\* range(min(5, doc.page_count)): the pages that are analysed.
SampledPages == 5

\* len(font_info[key]["sample_text"]) < 100
SampleLimit == 100

\* A span of page.get_text("dict"): its font, size and flags and its text,
\* of which the model keeps the length. A page is the spans of the lines of
\* its blocks, in order.
Spans ==
    { [font |-> "Arial", size |-> 12, flags |-> 0, text |-> 60],
      [font |-> "Arial", size |-> 12, flags |-> 18, text |-> 150] }

PageSpans == {<<>>} \cup {<<s>> : s \in Spans} \cup {<<s, s>> : s \in {x \in Spans : x.text < SampleLimit}}

\* key = f"{font}_{size}_{flags}"
FontKey(span) == <<span.font, span.size, span.flags>>

\* flags & 2**4 and flags & 2**1
IsBold(flags) == (flags \div 16) % 2 = 1

IsItalic(flags) == (flags \div 2) % 2 = 1

\* len(sample_text): sample_text is kept as the texts appended to it, each
\* with the page it stood on.
RECURSIVE SampleLen(_)
SampleLen(sample_text) ==
    IF sample_text = <<>> THEN 0 ELSE Head(sample_text).text + SampleLen(Tail(sample_text))

\* min(5, doc.page_count)
PagesToScan(doc) == IF Len(doc) < SampledPages THEN Len(doc) ELSE SampledPages

\* Lines 346-365: one span of the page under way.
ScanSpan ==
    /\ font_scan.pc = "scan"
    /\ font_scan.page_num < PagesToScan(font_scan.doc)
    /\ font_scan.span <= Len(font_scan.doc[font_scan.page_num + 1])
    /\ LET span == font_scan.doc[font_scan.page_num + 1][font_scan.span]
           key == FontKey(span)
           entry == IF key \in DOMAIN font_scan.font_info
                    THEN font_scan.font_info[key]
                    ELSE [font |-> span.font, size |-> span.size, flags |-> span.flags,
                          is_bold |-> IsBold(span.flags),
                          is_italic |-> IsItalic(span.flags),
                          count |-> 0, sample_text |-> <<>>]
           updated == [entry EXCEPT
                          !.count = @ + 1,
                          !.sample_text =
                              IF SampleLen(@) < SampleLimit
                              THEN Append(@, [page |-> font_scan.page_num + 1,
                                              text |-> span.text])
                              ELSE @]
       IN font_scan' = [font_scan EXCEPT
             !.span = @ + 1,
             !.font_info = [k \in DOMAIN font_scan.font_info \cup {key} |->
                               IF k = key THEN updated ELSE font_scan.font_info[k]]]
    /\ UNCHANGED <<pipelineVars, _result_store, storeVars, convertVars, extractVars,
                   chunkVars, splitting, presentation, writing, images, mainVars>>

\* The spans of the page are done: the next page_num of line 339.
ScanNextPage ==
    /\ font_scan.pc = "scan"
    /\ font_scan.page_num < PagesToScan(font_scan.doc)
    /\ font_scan.span > Len(font_scan.doc[font_scan.page_num + 1])
    /\ font_scan' = [font_scan EXCEPT !.page_num = @ + 1, !.span = 1]
    /\ UNCHANGED <<pipelineVars, _result_store, storeVars, convertVars, extractVars,
                   chunkVars, splitting, presentation, writing, images, mainVars>>

\* return font_info
ScanReturn ==
    /\ font_scan.pc = "scan"
    /\ font_scan.page_num >= PagesToScan(font_scan.doc)
    /\ font_scan' = [font_scan EXCEPT !.pc = "returned"]
    /\ UNCHANGED <<pipelineVars, _result_store, storeVars, convertVars, extractVars,
                   chunkVars, splitting, presentation, writing, images, mainVars>>

InitFonts ==
    /\ PipelineIdle
    /\ StoreInit
    /\ ConvertIdle
    /\ ExtractIdle
    /\ ChunkIdle
    /\ MainIdle
    /\ splitting = NoCall
    /\ presentation = NoCall
    /\ writing = NoCall
    /\ images = NoCall
    /\ \E doc \in SeqsUpTo(PageSpans, MaxPages) :
         font_scan = [pc |-> "scan", doc |-> doc, page_num |-> 0, span |-> 1,
                      font_info |-> <<>>]

NextFonts ==
    \/ ScanSpan
    \/ ScanNextPage
    \/ ScanReturn

SpecFonts == InitFonts /\ [][NextFonts]_vars

\* The spans with a key on the pages 1..n of the document.
SpansWithKey(doc, key, n) ==
    {ps \in (1..n) \X (1..2) :
        /\ ps[1] <= Len(doc)
        /\ ps[2] <= Len(doc[ps[1]])
        /\ FontKey(doc[ps[1]][ps[2]]) = key}

\* C26: at every step of the scan and in its result the sample of every
\* profile has at most 100 characters and holds text of the first
\* min(5, page_count) pages only, and the count of a profile in the result is
\* the number of spans with its key on these pages.
C26_SampleBounded ==
    /\ \A key \in DOMAIN font_scan.font_info :
          LET profile == font_scan.font_info[key]
          IN /\ SampleLen(profile.sample_text) <= SampleLimit
             /\ \A n \in 1..Len(profile.sample_text) :
                   profile.sample_text[n].page <= PagesToScan(font_scan.doc)
             /\ font_scan.pc = "returned" =>
                   profile.count
                       = Cardinality(SpansWithKey(font_scan.doc, key,
                                                  PagesToScan(font_scan.doc)))

\* ------------------------------------------------------------------------
\* _generate_presentation_files and FileSystemSkill.save_to_file
\* ------------------------------------------------------------------------
\* The slide results handed to _generate_presentation_files: what
\* slide.get("SlideHtml", "") and slide.get("Narration", "") give.
SlideResults == [SlideHtml : {"", "html"}, Narration : {"", "text"}]

\* The paths below presentation_dir.
IndexHtml == <<"index.html", 0>>

SlideFile(i) == <<"slide.html", i>>

NarrationFile(i) == <<"narration.txt", i>>

StylesCss == <<"styles.css", 0>>

ScriptJs == <<"script.js", 0>>

\* FileSystemSkill.save_to_file(content, file_path) when the write goes well
\* (ok) or raises: the handler prints the error and the method returns
\* False, which no caller in _generate_presentation_files looks at.
save_to_file(w, file_path, ok) ==
    IF ok
    THEN [w EXCEPT !.files = @ \cup {file_path}]
    ELSE [w EXCEPT !.printed = Append(@, file_path)]

\* Lines 346-347: os.makedirs(presentation_dir, exist_ok=True), which raises
\* when the directory cannot be made.
MakePresentationDir ==
    /\ writing.pc = "called"
    /\ \E ok \in BOOLEAN :
         writing' = [writing EXCEPT !.pc = IF ok THEN "index" ELSE "raised"]
    /\ UNCHANGED <<pipelineVars, _result_store, storeVars, convertVars, extractVars,
                   chunkVars, splitting, presentation, font_scan, images, mainVars>>

\* Lines 354-355: index.html.
SaveIndex ==
    /\ writing.pc = "index"
    /\ \E ok \in BOOLEAN :
         writing' = [save_to_file(writing, IndexHtml, ok) EXCEPT !.pc = "slide", !.i = 1]
    /\ UNCHANGED <<pipelineVars, _result_store, storeVars, convertVars, extractVars,
                   chunkVars, splitting, presentation, font_scan, images, mainVars>>

\* Lines 358-361 and 364-365: the file of slide i, and whether it has a
\* narration.
SaveSlide ==
    /\ writing.pc = "slide"
    /\ writing.i <= Len(writing.slide_results)
    /\ \E ok \in BOOLEAN :
         LET w == save_to_file(writing, SlideFile(writing.i), ok)
         IN IF writing.slide_results[writing.i].Narration /= ""
            THEN writing' = [w EXCEPT !.pc = "narration"]
            ELSE writing' = [w EXCEPT !.i = @ + 1]
    /\ UNCHANGED <<pipelineVars, _result_store, storeVars, convertVars, extractVars,
                   chunkVars, splitting, presentation, font_scan, images, mainVars>>

\* Lines 366-367: the narration of slide i.
SaveNarration ==
    /\ writing.pc = "narration"
    /\ \E ok \in BOOLEAN :
         writing' = [save_to_file(writing, NarrationFile(writing.i), ok)
                        EXCEPT !.pc = "slide", !.i = @ + 1]
    /\ UNCHANGED <<pipelineVars, _result_store, storeVars, convertVars, extractVars,
                   chunkVars, splitting, presentation, font_scan, images, mainVars>>

\* Line 370, _generate_assets (lines 443-456): styles.css and script.js.
GenerateAssets ==
    /\ writing.pc = "slide"
    /\ writing.i > Len(writing.slide_results)
    /\ \E css_ok \in BOOLEAN, js_ok \in BOOLEAN :
         writing' = [save_to_file(save_to_file(writing, StylesCss, css_ok),
                                      ScriptJs, js_ok)
                        EXCEPT !.pc = "done"]
    /\ UNCHANGED <<pipelineVars, _result_store, storeVars, convertVars, extractVars,
                   chunkVars, splitting, presentation, font_scan, images, mainVars>>

\* Line 164 of convert_pdf_to_slides_async, after line 162:
\* return f"Presentation generated successfully at ..."
ReturnGenerated ==
    /\ writing.pc = "done"
    /\ writing' = [writing EXCEPT !.pc = "returned",
                                  !.result = <<"Presentation generated successfully">>]
    /\ UNCHANGED <<pipelineVars, _result_store, storeVars, convertVars, extractVars,
                   chunkVars, splitting, presentation, font_scan, images, mainVars>>

\* Lines 166-167: an exception out of line 162.
ReturnGenerationError ==
    /\ writing.pc = "raised"
    /\ writing' = [writing EXCEPT !.pc = "returned", !.result = <<"Error: ", "OSError">>]
    /\ UNCHANGED <<pipelineVars, _result_store, storeVars, convertVars, extractVars,
                   chunkVars, splitting, presentation, font_scan, images, mainVars>>

InitFiles ==
    /\ PipelineIdle
    /\ StoreInit
    /\ ConvertIdle
    /\ ExtractIdle
    /\ ChunkIdle
    /\ MainIdle
    /\ splitting = NoCall
    /\ presentation = NoCall
    /\ font_scan = NoCall
    /\ images = NoCall
    /\ \E results \in SeqsUpTo(SlideResults, MaxItems) :
         writing = [pc |-> "called", slide_results |-> results, i |-> 0,
                    files |-> {}, printed |-> <<>>, result |-> <<>>]

NextFiles ==
    \/ MakePresentationDir
    \/ SaveIndex
    \/ SaveSlide
    \/ SaveNarration
    \/ GenerateAssets
    \/ ReturnGenerated
    \/ ReturnGenerationError

SpecFiles == InitFiles /\ [][NextFiles]_vars

\* The files of a presentation of the slide results.
PresentationFiles(results) ==
    {IndexHtml, StylesCss, ScriptJs}
    \cup {SlideFile(i) : i \in 1..Len(results)}
    \cup {NarrationFile(i) : i \in {n \in 1..Len(results) : results[n].Narration /= ""}}

\* C27: a run that returns the success message has written every file of
\* the presentation: a write that failed is reported by the run.
C27_WriteFailureReported ==
    (writing.pc = "returned"
       /\ writing.result = <<"Presentation generated successfully">>)
    => PresentationFiles(writing.slide_results) \subseteq writing.files

\* ------------------------------------------------------------------------
\* ImageProcessingSkill.process_images_in_parallel
\* ------------------------------------------------------------------------
\* An image path is one optimize_image can work on, or one for which it
\* raises (FileNotFoundError at line 33, or an error of the image library).
ImagePaths == {"ok", "missing"}

\* The values of max_concurrent: one task at a time, or two.
MaxConcurrentValues == {1, 2}

Tasks == 1..Len(images.tasks)

Optimizing == {i \in Tasks : images.tasks[i].pc = "optimizing"}

Ended(i) == images.tasks[i].pc \in {"returned", "raised"}

\* Lines 207-225: the semaphore and the tasks are made and gather awaits
\* them.
CallProcessImages ==
    /\ images.pc = "called"
    /\ images' = [images EXCEPT
                     !.pc = "gathering",
                     !.semaphore = images.max_concurrent,
                     !.tasks = [i \in 1..Len(images.image_paths) |->
                                   [pc |-> "created", waited |-> FALSE]]]
    /\ UNCHANGED <<pipelineVars, _result_store, storeVars, convertVars, extractVars,
                   chunkVars, splitting, presentation, font_scan, writing, mainVars>>

\* process_image reaches "async with semaphore" (line 215): it takes a
\* permit when one is free and nobody waits, else it joins the waiters.
TaskEnter(i) ==
    /\ images.pc /= "called"
    /\ images.tasks[i].pc = "created"
    /\ IF images.semaphore > 0 /\ images.waiters = <<>>
       THEN images' = [images EXCEPT !.semaphore = @ - 1,
                                     !.tasks[i].pc = "optimizing"]
       ELSE images' = [images EXCEPT !.waiters = Append(@, i),
                                     !.tasks[i].pc = "waiting",
                                     !.tasks[i].waited = TRUE]
    /\ UNCHANGED <<pipelineVars, _result_store, storeVars, convertVars, extractVars,
                   chunkVars, splitting, presentation, font_scan, writing, mainVars>>

\* The first waiter is woken by a release and takes the permit.
TaskWake(i) ==
    /\ images.tasks[i].pc = "waiting"
    /\ images.waiters /= <<>>
    /\ Head(images.waiters) = i
    /\ images.semaphore > 0
    /\ images' = [images EXCEPT !.semaphore = @ - 1,
                                !.waiters = Tail(@),
                                !.tasks[i].pc = "optimizing"]
    /\ UNCHANGED <<pipelineVars, _result_store, storeVars, convertVars, extractVars,
                   chunkVars, splitting, presentation, font_scan, writing, mainVars>>

\* optimize_image returns (line 221) and "async with" releases the permit.
OptimizeReturns(i) ==
    /\ images.tasks[i].pc = "optimizing"
    /\ images.image_paths[i] = "ok"
    /\ images' = [images EXCEPT !.semaphore = @ + 1,
                                !.tasks[i].pc = "returned"]
    /\ UNCHANGED <<pipelineVars, _result_store, storeVars, convertVars, extractVars,
                   chunkVars, splitting, presentation, font_scan, writing, mainVars>>

\* As OptimizeRaises, with the permit kept by the task that raised.
OptimizeRaisesHoldingPermit(i) ==
    /\ images.tasks[i].pc = "optimizing"
    /\ images.image_paths[i] = "missing"
    /\ images' = [images EXCEPT !.tasks[i].pc = "raised"]
    /\ UNCHANGED <<pipelineVars, _result_store, storeVars, convertVars, extractVars,
                   chunkVars, splitting, presentation, font_scan, writing, mainVars>>

\* optimize_image raises and "async with" releases the permit on the way
\* out.
OptimizeRaises(i) ==
    /\ images.tasks[i].pc = "optimizing"
    /\ images.image_paths[i] = "missing"
    /\ images' = [images EXCEPT !.semaphore = @ + 1,
                                !.tasks[i].pc = "raised"]
    /\ UNCHANGED <<pipelineVars, _result_store, storeVars, convertVars, extractVars,
                   chunkVars, splitting, presentation, font_scan, writing, mainVars>>

\* Lines 225-227: every task has returned; the paths in the order of
\* image_paths.
GatherReturns ==
    /\ images.pc = "gathering"
    /\ \A i \in Tasks : images.tasks[i].pc = "returned"
    /\ images' = [images EXCEPT !.pc = "returned", !.result_paths = images.image_paths]
    /\ UNCHANGED <<pipelineVars, _result_store, storeVars, convertVars, extractVars,
                   chunkVars, splitting, presentation, font_scan, writing, mainVars>>

\* Line 225: a task has raised; gather hands its exception to the caller
\* while the other tasks go on.
GatherRaises ==
    /\ images.pc = "gathering"
    /\ \E i \in Tasks : images.tasks[i].pc = "raised"
    /\ images' = [images EXCEPT !.pc = "raised"]
    /\ UNCHANGED <<pipelineVars, _result_store, storeVars, convertVars, extractVars,
                   chunkVars, splitting, presentation, font_scan, writing, mainVars>>

InitImages ==
    /\ PipelineIdle
    /\ StoreInit
    /\ ConvertIdle
    /\ ExtractIdle
    /\ ChunkIdle
    /\ MainIdle
    /\ splitting = NoCall
    /\ presentation = NoCall
    /\ font_scan = NoCall
    /\ writing = NoCall
    /\ \E image_paths \in SeqsUpTo(ImagePaths, MaxImages),
          max_concurrent \in MaxConcurrentValues :
         images = [pc |-> "called", image_paths |-> image_paths,
                   max_concurrent |-> max_concurrent, semaphore |-> 0,
                   waiters |-> <<>>, tasks |-> <<>>, result_paths |-> <<>>]

\* The steps of task i.
TaskStep(i) ==
    \/ TaskEnter(i)
    \/ TaskWake(i)
    \/ OptimizeReturns(i)
    \/ OptimizeRaises(i)

NextImages ==
    \/ CallProcessImages
    \/ \E i \in Tasks : TaskEnter(i)
    \/ \E i \in Tasks : TaskWake(i)
    \/ \E i \in Tasks : OptimizeReturns(i)
    \/ \E i \in Tasks : OptimizeRaises(i)
    \/ GatherReturns
    \/ GatherRaises

\* The event loop runs every task that can go on, and a job of the executor
\* ends.
SpecImages ==
    /\ InitImages
    /\ [][NextImages]_vars
    /\ \A i \in 1..MaxImages : WF_vars(i \in Tasks /\ TaskStep(i))

\* At most max_concurrent tasks are in optimize_image, each of them holds
\* one permit and nobody else does, and when all tasks have ended the
\* permits are all free.
PermitsAccounted ==
    images.pc /= "called" =>
        /\ Cardinality(Optimizing) <= images.max_concurrent
        /\ images.semaphore = images.max_concurrent - Cardinality(Optimizing)
        /\ (\A i \in Tasks : Ended(i)) => images.semaphore = images.max_concurrent

LoaderChain(preserve_tables) ==
    IF preserve_tables THEN <<"unstructured", "pymupdf", "custom">>
    ELSE <<"pymupdf", "custom">>

\* What a loader makes of the file; the custom extraction gives one
\* document.
Outcome(loader) ==
    CASE loader = "unstructured" -> pdf_file.unstructured
      [] loader = "pymupdf" -> pdf_file.pymupdf
      [] loader = "custom" -> IF pdf_file.fitz_opens THEN 1 ELSE Raises

\* C29: the loaders tried so far are the first loaders of the chain of
\* preserve_tables, each once; every loader before the last one tried has
\* raised; once documents are loaded they are those of the last loader tried,
\* which did not raise; and the extraction ends with the wrapped exception
\* only after the custom extraction, the last of the chain, has raised.
C29_FallbackChain ==
    LET chain == LoaderChain(conv.preserve_tables)
        n == Len(conv.tried)
    IN /\ n <= Len(chain)
       /\ conv.tried = SubSeq(chain, 1, n)
       /\ \A k \in 1..(n - 1) : Outcome(conv.tried[k]) = Raises
       /\ conv.pc \in {"chunk", "line102"} =>
             /\ n >= 1
             /\ Outcome(conv.tried[n]) /= Raises
             /\ conv.documents = Outcome(conv.tried[n])
             /\ conv.pdf_content.loader = conv.tried[n]
       /\ conv.pc \in {"pymupdf", "custom"} => Outcome(conv.tried[n]) = Raises
       /\ (conv.pc = "returned" /\ conv.result = <<"Error: ", "Error processing PDF">>) =>
             /\ conv.tried = chain
             /\ Outcome("custom") = Raises

\* C29 witness: with preserve_tables all three loaders were tried in turn
\* and the documents are those of the custom extraction, for a file of
\* which the first two loaders raise.
C29_Witness ==
    /\ conv.preserve_tables
    /\ conv.tried = <<"unstructured", "pymupdf", "custom">>
    /\ conv.pc = "chunk"
    /\ conv.documents = 1
    /\ conv.pdf_content.loader = "custom"

\* C30: convert_pdf_to_slides_async ends by returning, never by an
\* exception; once a step has failed its result begins with "Error: ", and
\* after the return no step is executed and no key is written any more;
\* main prints the success line with the returned result and returns 0.
C30_ErrorsAreReturned ==
    [][/\ conv'.pc /= "raised"
       /\ (conv'.pc = "returned" /\ conv'.result /= <<"Presentation generated successfully">>)
              => conv'.result[1] = "Error: "
       /\ conv.pc = "returned" =>
              /\ conv' = conv
              /\ _result_store' = _result_store
              /\ store_log' = store_log
       /\ main'.pc = "exited" =>
              /\ conv'.pc = "returned"
              /\ main'.exit_code = 0
              /\ main'.printed[1] = "Conversion completed successfully!"
              /\ main'.printed[2] = conv'.result]_vars

\* C30 witness: main has returned 0 after a conversion that failed at line
\* 102, after "pdf_content" was stored, and has printed the success line
\* above the error.
C30_Witness ==
    /\ main.pc = "exited"
    /\ main.exit_code = 0
    /\ main.printed = <<"Conversion completed successfully!",
                        <<"Error: ", "UnboundLocalError">>>>
    /\ conv.result = <<"Error: ", "UnboundLocalError">>
    /\ store_log = <<"pdf_content">>

====
